---------------------------- MODULE Spec2Model ----------------------------
(***************************************************************************)
(* A model of the ascii-render library of mesh3dtui: the colour model      *)
(* (colors.ts), the region mapper (mapper.ts), the symbol catalog          *)
(* (symbols.ts) and the renderer with its raster primitives (renderer.ts). *)
(*                                                                         *)
(* JavaScript objects are modelled with their identity: a Color stored in  *)
(* a pixel slot is a reference into `heap`, and a PixelBuffer is a record  *)
(* of its identity and its rows.  An optional value (Color.a, a LineStyle  *)
(* field, a Partial<RenderOptions> field) is None when absent and Some(v)  *)
(* when present.                                                           *)
(***************************************************************************)
EXTENDS Integers, Sequences, FiniteSets, TLC

VARIABLES
    heap,      \* the Color objects: reference -> [r, g, b, a]
    buffer,    \* the caller's PixelBuffer: [id, rows], rows of references
    ret,       \* the last call: its name, arguments and what it returned
    renderer,  \* the AsciiRenderer instance and the option objects it handed out
    line,      \* drawLine's loop variables while a line is being drawn
    written    \* history: the option values the constructor and the setters wrote

vars == <<heap, buffer, ret, renderer, line, written>>

---------------------------------------------------------------------------
(* Bounds of the model *)

\* createBuffer is called with width * height <= MaxArea
MaxArea == 4
\* endpoints of the lines drawn step by step lie in -1 .. MaxLine
MaxLine == 4

\* circles drawn step by step have radius <= MaxRadius
MaxRadius == 5

\* buffers mapped to cells in every colour have width * height <= MaxCells
MaxCells == 4

\* rendered buffers have width * height <= MaxRender
MaxRender == 3

---------------------------------------------------------------------------
(* Optional values *)

None == <<>>
Some(v) == <<v>>
\* a ?? b
OrElse(o, d) == IF o = None THEN d ELSE o[1]

Abs(n) == IF n < 0 THEN 0 - n ELSE n
Max(a, b) == IF a >= b THEN a ELSE b
Min(a, b) == IF a <= b THEN a ELSE b

---------------------------------------------------------------------------
(* colors.ts *)

\* Math.round of the rational num / den (den > 0): floor(num/den + 1/2)
RoundDiv(num, den) == (2 * num + den) \div (2 * den)

\* clampByte of the rational num / den
ClampByteDiv(num, den) == Max(0, Min(255, RoundDiv(num, den)))

clampByte(value) == ClampByteDiv(value, 1)

ALPHA_THRESHOLD == 128

BLACK == [r |-> 0, g |-> 0, b |-> 0, a |-> Some(255)]
WHITE == [r |-> 255, g |-> 255, b |-> 255, a |-> Some(255)]
TRANSPARENT == [r |-> 0, g |-> 0, b |-> 0, a |-> Some(0)]

\* 0.299*R + 0.587*G + 0.114*B, rounded and clamped
getBrightness(color) ==
    ClampByteDiv(299 * color.r + 587 * color.g + 114 * color.b, 1000)

isPixelOn(color, threshold) ==
    IF color.a # None /\ color.a[1] < ALPHA_THRESHOLD
    THEN FALSE
    ELSE getBrightness(color) >= threshold

RECURSIVE SumOver(_, _)
\* the running sums r, g, b, a of averageColors' loop
SumOver(colors, i) ==
    IF i = 0 THEN [r |-> 0, g |-> 0, b |-> 0, a |-> 0]
    ELSE LET s == SumOver(colors, i - 1)
             c == colors[i]
         IN [r |-> s.r + c.r, g |-> s.g + c.g, b |-> s.b + c.b,
             a |-> s.a + OrElse(c.a, 255)]

averageColors(colors) ==
    IF Len(colors) = 0 THEN BLACK
    ELSE LET s == SumOver(colors, Len(colors))
             n == Len(colors)
         IN [r |-> ClampByteDiv(s.r, n), g |-> ClampByteDiv(s.g, n),
             b |-> ClampByteDiv(s.b, n), a |-> Some(ClampByteDiv(s.a, n))]

colorsEqual(c1, c2) ==
    /\ c1.r = c2.r
    /\ c1.g = c2.g
    /\ c1.b = c2.b
    /\ OrElse(c1.a, 255) = OrElse(c2.a, 255)

\* clampByte of num / den for a denominator of either sign
ClampByteRatio(num, den) ==
    IF den < 0 THEN ClampByteDiv(0 - num, 0 - den) ELSE ClampByteDiv(num, den)

\* compositing that never divides by the combined alpha
blendColors_straight(fg, bg) ==
    LET fgA == OrElse(fg.a, 255)
        bgA == OrElse(bg.a, 255)
        outA255 == 255 * fgA + bgA * (255 - fgA)
        mix(f, b) == ClampByteDiv(255 * f * fgA + b * bgA * (255 - fgA), 255 * 255)
    IN IF outA255 = 0 THEN TRANSPARENT
       ELSE [r |-> mix(fg.r, bg.r), g |-> mix(fg.g, bg.g), b |-> mix(fg.b, bg.b),
             a |-> Some(ClampByteDiv(outA255, 255))]

\* alpha compositing, fg over bg; the alphas are a / 255, so that
\* outA = outA255 / 255^2 and every quotient is one of integers
blendColors(fg, bg) ==
    LET fgA == OrElse(fg.a, 255)
        bgA == OrElse(bg.a, 255)
        outA255 == 255 * fgA + bgA * (255 - fgA)
        mix(f, b) == ClampByteRatio(255 * f * fgA + b * bgA * (255 - fgA), outA255)
    IN IF outA255 = 0 THEN TRANSPARENT
       ELSE [r |-> mix(fg.r, bg.r), g |-> mix(fg.g, bg.g), b |-> mix(fg.b, bg.b),
             a |-> Some(ClampByteDiv(outA255, 255))]

\* t is the rational t.num / t.den with t.den > 0
interpolateColor(c1, c2, t) ==
    LET clampedT == IF t.num < 0 THEN [num |-> 0, den |-> 1]
                    ELSE IF t.num > t.den THEN [num |-> 1, den |-> 1]
                    ELSE t
        lerp(a, b) == ClampByteDiv(a * clampedT.den + (b - a) * clampedT.num, clampedT.den)
    IN [r |-> lerp(c1.r, c2.r), g |-> lerp(c1.g, c2.g), b |-> lerp(c1.b, c2.b),
        a |-> Some(lerp(OrElse(c1.a, 255), OrElse(c2.a, 255)))]

rgb(r, g, b, a) ==
    [r |-> clampByte(r), g |-> clampByte(g), b |-> clampByte(b),
     a |-> IF a # None THEN Some(clampByte(a[1])) ELSE None]

\* strings are sequences of one-character strings
WhiteSpace == {" ", "\t", "\n", "\r"}

HexDigits == <<"0", "1", "2", "3", "4", "5", "6", "7", "8", "9",
               "a", "b", "c", "d", "e", "f">>

UpperHexDigits == <<"A", "B", "C", "D", "E", "F">>

\* the value of a radix-16 digit, -1 for any other character
DigitValue(c) ==
    IF \E i \in DOMAIN HexDigits : HexDigits[i] = c
    THEN (CHOOSE i \in DOMAIN HexDigits : HexDigits[i] = c) - 1
    ELSE IF \E i \in DOMAIN UpperHexDigits : UpperHexDigits[i] = c
    THEN (CHOOSE i \in DOMAIN UpperHexDigits : UpperHexDigits[i] = c) + 9
    ELSE -1

RECURSIVE DigitsValue(_)
DigitsValue(z) ==
    IF z = <<>> THEN 0
    ELSE 16 * DigitsValue(SubSeq(z, 1, Len(z) - 1)) + DigitValue(z[Len(z)])

NaN == None

\* parseInt(string, 16): leading white space is skipped, one sign is taken,
\* a 0x prefix is stripped, and the longest prefix of digits is the number;
\* whatever follows it is ignored, and NaN comes only of an empty prefix
parseInt(string) ==
    LET start == CHOOSE k \in 1 .. Len(string) + 1 :
                    /\ \A i \in 1 .. k - 1 : string[i] \in WhiteSpace
                    /\ k <= Len(string) => string[k] \notin WhiteSpace
        trimmed == SubSeq(string, start, Len(string))
        sign == IF trimmed # <<>> /\ trimmed[1] = "-" THEN -1 ELSE 1
        unsigned == IF trimmed # <<>> /\ trimmed[1] \in {"+", "-"}
                    THEN Tail(trimmed) ELSE trimmed
        S == IF Len(unsigned) >= 2 /\ unsigned[1] = "0" /\ unsigned[2] \in {"x", "X"}
             THEN SubSeq(unsigned, 3, Len(unsigned)) ELSE unsigned
        end == CHOOSE k \in 0 .. Len(S) :
                  /\ \A i \in 1 .. k : DigitValue(S[i]) >= 0
                  /\ k < Len(S) => DigitValue(S[k + 1]) < 0
    IN IF end = 0 THEN NaN ELSE Some(sign * DigitsValue(SubSeq(S, 1, end)))

\* hexStr.replace("#", ""): the first "#" goes, wherever it stands
replaceHash(hexStr) ==
    IF \E i \in DOMAIN hexStr : hexStr[i] = "#"
    THEN LET at == CHOOSE i \in DOMAIN hexStr :
                      /\ hexStr[i] = "#"
                      /\ \A j \in 1 .. i - 1 : hexStr[j] # "#"
         IN SubSeq(hexStr, 1, at - 1) \o SubSeq(hexStr, at + 1, Len(hexStr))
    ELSE hexStr

\* the Color of three parsed channels, BLACK when one of them is NaN
hexChannels(r, g, b) ==
    IF r = NaN \/ g = NaN \/ b = NaN THEN BLACK
    ELSE [r |-> r[1], g |-> g[1], b |-> b[1], a |-> Some(255)]

hex(hexStr) ==
    LET clean == replaceHash(hexStr)
    IN IF Len(clean) = 3
       THEN hexChannels(parseInt(<<clean[1], clean[1]>>),
                        parseInt(<<clean[2], clean[2]>>),
                        parseInt(<<clean[3], clean[3]>>))
       ELSE IF Len(clean) = 6
       THEN hexChannels(parseInt(SubSeq(clean, 1, 2)),
                        parseInt(SubSeq(clean, 3, 4)),
                        parseInt(SubSeq(clean, 5, 6)))
       ELSE BLACK

invertColor(color) ==
    [r |-> 255 - color.r, g |-> 255 - color.g, b |-> 255 - color.b,
     a |-> Some(OrElse(color.a, 255))]

\* the escape sequences, as tokens of the output string
fgTruecolor(color) ==
    <<"fg", clampByte(color.r), clampByte(color.g), clampByte(color.b)>>

bgTruecolor(color) ==
    <<"bg", clampByte(color.r), clampByte(color.g), clampByte(color.b)>>

resetColors == <<"reset">>

---------------------------------------------------------------------------
(* The heap of Color objects *)

Null == <<"null">>

\* the Color objects the host application owns and passes as `color`
CallerRefs == {<<"caller", 1>>, <<"caller", 2>>}

\* the Color objects the library allocates, named by allocation order
PixelRef(k) == <<"pixel", k>>

\* the colours the host application uses
Palette == {BLACK, WHITE}

\* a buffer before createBuffer has returned one
NoBuffer == [id |-> 0, rows |-> <<>>]

Height(rows) == Len(rows)
Width(rows) == IF Len(rows) = 0 THEN 0 ELSE Len(rows[1])

\* the references held by the slots of `rows`
SlotRefs(rows) == {rows[y][x] : <<y, x>> \in {p \in (1 .. Len(rows)) \X (1 .. Width(rows)) : TRUE}}

---------------------------------------------------------------------------
(* renderer.ts: the pixel buffer *)

\* heap with the library's objects reallocated: the first n hold `value`, the
\* others are unreachable garbage (kept BLACK so that equal heaps are equal)
Allocate(h, n, value) ==
    [ref \in DOMAIN h |->
        IF ref \in CallerRefs THEN h[ref]
        ELSE IF ref[2] <= n THEN value ELSE BLACK]

\* Array.from({length: height}, () => Array.from({length: width}, ...)):
\* one new object per slot, in row-major order (a negative length gives [])
FreshRows(width, height) ==
    [y \in 1 .. Max(height, 0) |->
        [x \in 1 .. Max(width, 0) |-> PixelRef((y - 1) * width + x)]]

\* createBuffer without its validation
createBuffer_unchecked(h, oldId, width, height, fillColor) ==
    [threw |-> FALSE,
     id |-> IF oldId = 1 THEN 2 ELSE 1,
     rows |-> FreshRows(width, height),
     heap |-> Allocate(h, width * height,
                       IF fillColor = None THEN BLACK ELSE h[fillColor[1]])]

\* createBuffer(width, height, fillColor): fillColor is None or Some(reference).
\* Returns [threw, id, rows, heap]; `id` is the identity of the new array, one
\* that the buffer the caller held before does not have.
createBuffer(h, oldId, width, height, fillColor) ==
    IF width <= 0 \/ height <= 0
    THEN [threw |-> TRUE, id |-> 0, rows |-> <<>>, heap |-> h]
    ELSE LET color == IF fillColor = None THEN BLACK ELSE h[fillColor[1]]
         IN [threw |-> FALSE,
             id |-> IF oldId = 1 THEN 2 ELSE 1,
             rows |-> FreshRows(width, height),
             heap |-> Allocate(h, width * height, color)]

\* setPixel that clamps an outside coordinate to the nearest edge
setPixel_clamps(rows, x, y, color) ==
    IF Len(rows) > 0 /\ Len(rows[1]) > 0
    THEN [rows EXCEPT ![Max(0, Min(y, Len(rows) - 1)) + 1]
                       [Max(0, Min(x, Len(rows[1]) - 1)) + 1] = color]
    ELSE rows

\* setPixel with `x <= row.length`: writing at row.length grows the row
setPixel_grows(rows, x, y, color) ==
    IF y >= 0 /\ y < Len(rows)
    THEN IF x >= 0 /\ x < Len(rows[y + 1])
         THEN [rows EXCEPT ![y + 1][x + 1] = color]
         ELSE IF x = Len(rows[y + 1])
         THEN [rows EXCEPT ![y + 1] = Append(@, color)]
         ELSE rows
    ELSE rows

setPixel(rows, x, y, color) ==
    IF y >= 0 /\ y < Len(rows)
    THEN IF x >= 0 /\ x < Len(rows[y + 1])
         THEN [rows EXCEPT ![y + 1][x + 1] = color]
         ELSE rows
    ELSE rows

getPixel(rows, x, y) ==
    IF y >= 0 /\ y < Len(rows)
    THEN IF x >= 0 /\ x < Len(rows[y + 1])
         THEN rows[y + 1][x + 1]
         ELSE Null
    ELSE Null

\* setPixel(x, y, color) at pts[1], ..., pts[n], each pts[i] = <<x, y>>: every
\* call writes the same `color`, so a slot ends as `color` exactly when one of
\* the calls wrote it, whatever their order
setPixels(rows, pts, n, color) ==
    [y \in 1 .. Len(rows) |->
        [x \in 1 .. Len(rows[y]) |->
            IF \E i \in 1 .. n :
                 getPixel(setPixel(rows, pts[i][1], pts[i][2], color), x - 1, y - 1) = color
            THEN color
            ELSE rows[y][x]]]

\* clear with `row[x] = color`: every slot holds the caller's object
clear_shared(h, buf, color) ==
    [heap |-> Allocate(h, 0, BLACK),
     buf |-> [buf EXCEPT !.rows =
                [y \in 1 .. Len(buf.rows) |-> [x \in 1 .. Len(buf.rows[y]) |-> color]]]]

\* clear(buffer, color): row[x] = { ...color } for every slot.
\* Returns [heap, buf].
clear(h, buf, color) ==
    LET rows == buf.rows
        w == Width(rows)
    IN [heap |-> Allocate(h, Len(rows) * w, h[color]),
        buf |-> [buf EXCEPT !.rows =
                    [y \in 1 .. Len(rows) |->
                        [x \in 1 .. Len(rows[y]) |-> PixelRef((y - 1) * w + x)]]]]

---------------------------------------------------------------------------
(* renderer.ts: drawLine *)

\* a LineStyle without gradient colours
NoStyle == [pattern |-> None, thickness |-> None]

\* the constants drawLine computes before its loop (lines 169-183)
LineSetup(x1, y1, x2, y2) ==
    [dx |-> Abs(x2 - x1), dy |-> Abs(y2 - y1),
     sx |-> IF x1 < x2 THEN 1 ELSE -1,
     sy |-> IF y1 < y2 THEN 1 ELSE -1,
     isSteep |-> Abs(y2 - y1) > Abs(x2 - x1),
     x2 |-> x2, y2 |-> y2]

\* the loop variables on entry: x, y, err, step
LineStart(x1, y1, x2, y2) ==
    [x |-> x1, y |-> y1, err |-> Abs(x2 - x1) - Abs(y2 - y1), step |-> 0]

\* a dash check that reads the pattern one step ahead
shouldDraw_ahead(style, step) ==
    \/ style.pattern = None
    \/ LET pattern == style.pattern[1]
       IN /\ Len(pattern) > 0
          /\ pattern[((step + 1) % Len(pattern)) + 1] = 1

\* !pattern || pattern[step % pattern.length] === 1
\* (an empty pattern indexes at NaN, which is undefined, never 1)
shouldDraw(style, step) ==
    \/ style.pattern = None
    \/ LET pattern == style.pattern[1]
       IN /\ Len(pattern) > 0
          /\ pattern[(step % Len(pattern)) + 1] = 1

\* thick pixels centred with floor((thickness - 1) / 2)
ThickPoints_centred(x, y, thickness, isSteep) ==
    IF isSteep
    THEN [d \in 1 .. Max(thickness, 0) |-> <<x - ((thickness - 1) \div 2) + (d - 1), y>>]
    ELSE [d \in 1 .. Max(thickness, 0) |-> <<x, y - ((thickness - 1) \div 2) + (d - 1)>>]

\* thick pixels laid along the line instead of across it
ThickPoints_along(x, y, thickness, isSteep) ==
    IF isSteep
    THEN [d \in 1 .. Max(thickness, 0) |-> <<x, y - (thickness \div 2) + (d - 1)>>]
    ELSE [d \in 1 .. Max(thickness, 0) |-> <<x - (thickness \div 2) + (d - 1), y>>]

\* the pixels drawThickPixelPerpendicular sets, in order
ThickPoints(x, y, thickness, isSteep) ==
    IF isSteep
    THEN [d \in 1 .. Max(thickness, 0) |-> <<x - (thickness \div 2) + (d - 1), y>>]
    ELSE [d \in 1 .. Max(thickness, 0) |-> <<x, y - (thickness \div 2) + (d - 1)>>]

drawThickPixelPerpendicular(rows, x, y, color, thickness, isSteep) ==
    LET pts == ThickPoints(x, y, thickness, isSteep)
    IN setPixels(rows, pts, Len(pts), color)

\* the loop body with the break test ahead of the drawing: the end point is
\* never drawn
LineDraw_afterBreak(rows, l, k, color, style) ==
    IF shouldDraw(style, l.step) /\ ~(l.x = k.x2 /\ l.y = k.y2)
    THEN LET thickness == OrElse(style.thickness, 1)
         IN IF thickness > 1
            THEN drawThickPixelPerpendicular(rows, l.x, l.y, color, thickness, k.isSteep)
            ELSE setPixel(rows, l.x, l.y, color)
    ELSE rows

\* the drawing part of one iteration (lines 186-207)
LineDraw(rows, l, k, color, style) ==
    IF shouldDraw(style, l.step)
    THEN LET thickness == OrElse(style.thickness, 1)
         IN IF thickness > 1
            THEN drawThickPixelPerpendicular(rows, l.x, l.y, color, thickness, k.isSteep)
            ELSE setPixel(rows, l.x, l.y, color)
    ELSE rows

\* if (x === x2 && y === y2) break
LineDone(l, k) == l.x = k.x2 /\ l.y = k.y2

\* stepping with `else if` on the second test: never both axes in one step
LineAdvance_elseIf(l, k) ==
    LET e2 == 2 * l.err
        ex == e2 > 0 - k.dy
        ey == ~ex /\ e2 < k.dx
    IN [x |-> IF ex THEN l.x + k.sx ELSE l.x,
        y |-> IF ey THEN l.y + k.sy ELSE l.y,
        err |-> l.err - (IF ex THEN k.dy ELSE 0) + (IF ey THEN k.dx ELSE 0),
        step |-> l.step + 1]

\* the stepping part of one iteration (lines 211-220)
LineAdvance(l, k) ==
    LET e2 == 2 * l.err
        ex == e2 > 0 - k.dy
        ey == e2 < k.dx
    IN [x |-> IF ex THEN l.x + k.sx ELSE l.x,
        y |-> IF ey THEN l.y + k.sy ELSE l.y,
        err |-> l.err - (IF ex THEN k.dy ELSE 0) + (IF ey THEN k.dx ELSE 0),
        step |-> l.step + 1]

RECURSIVE LineLoop(_, _, _, _, _)
LineLoop(rows, l, k, color, style) ==
    LET drawn == LineDraw(rows, l, k, color, style)
    IN IF LineDone(l, k) THEN drawn
       ELSE LineLoop(drawn, LineAdvance(l, k), k, color, style)

\* drawLine(buffer, x1, y1, x2, y2, color, style): the buffer it returns
drawLine(buf, x1, y1, x2, y2, color, style) ==
    [buf EXCEPT !.rows = LineLoop(buf.rows, LineStart(x1, y1, x2, y2),
                                  LineSetup(x1, y1, x2, y2), color, style)]

---------------------------------------------------------------------------
(* renderer.ts: drawRect, drawCircle *)

\* the pixels of a filled rectangle, rows first (lines 268-272)
RectFillPoints(x, y, width, height) ==
    [i \in 1 .. width * height |->
        <<x + ((i - 1) % width), y + ((i - 1) \div width)>>]

\* the pixels of the two horizontal edges (lines 275-278)
RectRowPoints(x, y, width, height) ==
    [i \in 1 .. 2 * width |->
        IF i % 2 = 1 THEN <<x + ((i - 1) \div 2), y>>
        ELSE <<x + ((i - 1) \div 2), y + height - 1>>]

\* vertical edges with the right one at x + width
RectColPoints_wide(x, y, width, height) ==
    [i \in 1 .. 2 * height |->
        IF i % 2 = 1 THEN <<x, y + ((i - 1) \div 2)>>
        ELSE <<x + width, y + ((i - 1) \div 2)>>]

\* the pixels of the two vertical edges (lines 279-282)
RectColPoints(x, y, width, height) ==
    [i \in 1 .. 2 * height |->
        IF i % 2 = 1 THEN <<x, y + ((i - 1) \div 2)>>
        ELSE <<x + width - 1, y + ((i - 1) \div 2)>>]

drawRect(buf, x, y, width, height, color, fill) ==
    IF width <= 0 \/ height <= 0 THEN buf
    ELSE IF fill
    THEN [buf EXCEPT !.rows =
            setPixels(buf.rows, RectFillPoints(x, y, width, height), width * height, color)]
    ELSE LET edges == RectRowPoints(x, y, width, height)
                      \o RectColPoints(x, y, width, height)
         IN [buf EXCEPT !.rows = setPixels(buf.rows, edges, Len(edges), color)]

\* outline points without the four mirror images across the diagonals
CirclePoints_fourfold(cx, cy, x, y, fill) ==
    IF fill
    THEN [i \in 1 .. 2 * (2 * x + 1) |->
            IF i % 2 = 1 THEN <<cx - x + ((i - 1) \div 2), cy + y>>
            ELSE <<cx - x + ((i - 1) \div 2), cy - y>>]
         \o [i \in 1 .. 2 * (2 * y + 1) |->
            IF i % 2 = 1 THEN <<cx - y + ((i - 1) \div 2), cy + x>>
            ELSE <<cx - y + ((i - 1) \div 2), cy - x>>]
    ELSE << <<cx + x, cy + y>>, <<cx - x, cy + y>>, <<cx - x, cy - y>>, <<cx + x, cy - y>> >>

\* fill that draws the spans of the rows cy + y and cy - y only
CirclePoints_halfFill(cx, cy, x, y, fill) ==
    IF fill
    THEN [i \in 1 .. 2 * (2 * x + 1) |->
            IF i % 2 = 1 THEN <<cx - x + ((i - 1) \div 2), cy + y>>
            ELSE <<cx - x + ((i - 1) \div 2), cy - y>>]
    ELSE << <<cx + x, cy + y>>, <<cx + y, cy + x>>, <<cx - y, cy + x>>,
            <<cx - x, cy + y>>, <<cx - x, cy - y>>, <<cx - y, cy - x>>,
            <<cx + y, cy - x>>, <<cx + x, cy - y>> >>

\* the pixels one iteration of drawCircle's loop sets (lines 305-325)
CirclePoints(cx, cy, x, y, fill) ==
    IF fill
    THEN [i \in 1 .. 2 * (2 * x + 1) |->
            IF i % 2 = 1 THEN <<cx - x + ((i - 1) \div 2), cy + y>>
            ELSE <<cx - x + ((i - 1) \div 2), cy - y>>]
         \o [i \in 1 .. 2 * (2 * y + 1) |->
            IF i % 2 = 1 THEN <<cx - y + ((i - 1) \div 2), cy + x>>
            ELSE <<cx - y + ((i - 1) \div 2), cy - x>>]
    ELSE << <<cx + x, cy + y>>, <<cx + y, cy + x>>, <<cx - y, cy + x>>,
            <<cx - x, cy + y>>, <<cx - x, cy - y>>, <<cx - y, cy - x>>,
            <<cx + y, cy - x>>, <<cx + x, cy - y>> >>

\* the error update of one iteration (lines 327-334): [x, y, err]
CircleAdvance(c) ==
    LET y1 == IF c.err <= 0 THEN c.y + 1 ELSE c.y
        e1 == IF c.err <= 0 THEN c.err + 2 * y1 + 1 ELSE c.err
        x1 == IF e1 > 0 THEN c.x - 1 ELSE c.x
        e2 == IF e1 > 0 THEN e1 - (2 * x1 + 1) ELSE e1
    IN [x |-> x1, y |-> y1, err |-> e2]

RECURSIVE CircleLoop(_, _, _, _, _, _)
CircleLoop(rows, c, cx, cy, color, fill) ==
    IF c.x >= c.y
    THEN LET pts == CirclePoints(cx, cy, c.x, c.y, fill)
         IN CircleLoop(setPixels(rows, pts, Len(pts), color),
                       CircleAdvance(c), cx, cy, color, fill)
    ELSE rows

drawCircle(buf, cx, cy, radius, color, fill) ==
    IF radius < 0 THEN buf
    ELSE [buf EXCEPT !.rows =
            CircleLoop(buf.rows, [x |-> radius, y |-> 0, err |-> 0], cx, cy, color, fill)]

---------------------------------------------------------------------------
(* types.ts, symbols.ts: a glyph is modelled by its code point *)

ASCII == "ascii"
HALF == "half"
QUADRANT == "quadrant"
BRAILLE == "braille"
SEXTANT == "sextant"
SymbolSets == {ASCII, HALF, QUADRANT, BRAILLE, SEXTANT}

NONE == "none"
TRUECOLOR == "truecolor"
ColorModes == {NONE, TRUECOLOR}

DEFAULT_OPTIONS == [symbolSet |-> HALF, colorMode |-> TRUECOLOR, threshold |-> 128]

\* ASCII_SYMBOLS: each entry <<code point of char, pattern>>
\* an ASCII ramp ordered from dark to light after the blank
ASCII_SYMBOLS_ENTRIES_darkFirst ==
    <<
       <<32, 0>>, <<64, 1>>, <<35, 1>>, <<42, 1>>, <<61, 1>>, <<43, 1>>,
       <<126, 1>>, <<45, 1>>, <<44, 1>>, <<46, 1>> >>

ASCII_SYMBOLS_ENTRIES ==
    <<
       <<32, 0>>, <<46, 1>>, <<44, 1>>, <<45, 1>>, <<126, 1>>, <<43, 1>>,
       <<61, 1>>, <<42, 1>>, <<35, 1>>, <<64, 1>> >>

ASCII_SYMBOLS ==
    [i \in 1 .. Len(ASCII_SYMBOLS_ENTRIES) |->
        [char |-> ASCII_SYMBOLS_ENTRIES[i][1], pattern |-> ASCII_SYMBOLS_ENTRIES[i][2],
         width |-> 1, height |-> 1]]

\* HALF_BLOCK_SYMBOLS: each entry <<code point of char, pattern>>
\* a half-block table whose last entry repeats pattern 0b10
HALF_BLOCK_SYMBOLS_ENTRIES_repeat ==
    << <<32, 0>>, <<9600, 1>>, <<9604, 2>>, <<9608, 2>> >>

HALF_BLOCK_SYMBOLS_ENTRIES ==
    <<
       <<32, 0>>, <<9600, 1>>, <<9604, 2>>, <<9608, 3>> >>

HALF_BLOCK_SYMBOLS ==
    [i \in 1 .. Len(HALF_BLOCK_SYMBOLS_ENTRIES) |->
        [char |-> HALF_BLOCK_SYMBOLS_ENTRIES[i][1], pattern |-> HALF_BLOCK_SYMBOLS_ENTRIES[i][2],
         width |-> 1, height |-> 2]]

\* QUADRANT_SYMBOLS: each entry <<code point of char, pattern>>
QUADRANT_SYMBOLS_ENTRIES ==
    <<
       <<32, 0>>, <<9624, 1>>, <<9629, 2>>, <<9600, 3>>, <<9622, 4>>, <<9612, 5>>,
       <<9630, 6>>, <<9627, 7>>, <<9623, 8>>, <<9626, 9>>, <<9616, 10>>, <<9628, 11>>,
       <<9604, 12>>, <<9625, 13>>, <<9631, 14>>, <<9608, 15>> >>

QUADRANT_SYMBOLS ==
    [i \in 1 .. Len(QUADRANT_SYMBOLS_ENTRIES) |->
        [char |-> QUADRANT_SYMBOLS_ENTRIES[i][1], pattern |-> QUADRANT_SYMBOLS_ENTRIES[i][2],
         width |-> 2, height |-> 2]]

\* SEXTANT_SYMBOLS: each entry <<code point of char, pattern>>
SEXTANT_SYMBOLS_ENTRIES ==
    <<
       <<32, 0>>, <<129792, 1>>, <<129793, 2>>, <<129794, 3>>, <<129795, 4>>, <<129796, 5>>,
       <<129797, 6>>, <<129798, 7>>, <<129799, 8>>, <<129800, 9>>, <<129801, 10>>, <<129802, 11>>,
       <<129803, 12>>, <<129804, 13>>, <<129805, 14>>, <<129806, 15>>, <<129807, 16>>, <<129808, 17>>,
       <<129809, 18>>, <<129810, 19>>, <<129811, 20>>, <<9612, 21>>, <<129812, 22>>, <<129813, 23>>,
       <<129814, 24>>, <<129815, 25>>, <<129816, 26>>, <<129817, 27>>, <<129818, 28>>, <<129819, 29>>,
       <<129820, 30>>, <<129821, 31>>, <<129822, 32>>, <<129823, 33>>, <<129824, 34>>, <<129825, 35>>,
       <<129826, 36>>, <<129827, 37>>, <<129828, 38>>, <<129829, 39>>, <<129830, 40>>, <<129831, 41>>,
       <<9616, 42>>, <<129832, 43>>, <<129833, 44>>, <<129834, 45>>, <<129835, 46>>, <<129836, 47>>,
       <<129837, 48>>, <<129838, 49>>, <<129839, 50>>, <<129840, 51>>, <<129841, 52>>, <<129842, 53>>,
       <<129843, 54>>, <<129844, 55>>, <<129845, 56>>, <<129846, 57>>, <<129847, 58>>, <<129848, 59>>,
       <<129849, 60>>, <<129850, 61>>, <<129851, 62>>, <<9608, 63>> >>

SEXTANT_SYMBOLS ==
    [i \in 1 .. Len(SEXTANT_SYMBOLS_ENTRIES) |->
        [char |-> SEXTANT_SYMBOLS_ENTRIES[i][1], pattern |-> SEXTANT_SYMBOLS_ENTRIES[i][2],
         width |-> 2, height |-> 3]]

BRAILLE_BASE == 10240

\* String.fromCodePoint(BRAILLE_BASE + (pattern & 0xff))
getBrailleChar(pattern) == BRAILLE_BASE + (pattern % 256)

BRAILLE_DOTS ==
    [DOT1 |-> 1, DOT2 |-> 2, DOT3 |-> 4, DOT4 |-> 8,
     DOT5 |-> 16, DOT6 |-> 32, DOT7 |-> 64, DOT8 |-> 128]

\* generateBrailleSymbols(): pattern = 0, ..., 255
BRAILLE_SYMBOLS ==
    [i \in 1 .. 256 |->
        [char |-> getBrailleChar(i - 1), pattern |-> i - 1, width |-> 2, height |-> 4]]

\* SYMBOL_SET_MAP[name] ?? HALF_BLOCK_SYMBOLS
getSymbolSet(name) ==
    CASE name = ASCII -> ASCII_SYMBOLS
      [] name = HALF -> HALF_BLOCK_SYMBOLS
      [] name = QUADRANT -> QUADRANT_SYMBOLS
      [] name = BRAILLE -> BRAILLE_SYMBOLS
      [] name = SEXTANT -> SEXTANT_SYMBOLS
      [] OTHER -> HALF_BLOCK_SYMBOLS

\* every set read through the largest sub-grid, 2 x 4
getSymbolDimensions_largest(name) == [width |-> 2, height |-> 4]

getSymbolDimensions(name) ==
    LET set == getSymbolSet(name)
    IN IF Len(set) > 0
       THEN [width |-> set[1].width, height |-> set[1].height]
       ELSE [width |-> 1, height |-> 2]

---------------------------------------------------------------------------
(* mapper.ts: `pixels` is the buffer with every slot read through the heap *)

Pixels(h, rows) == [y \in 1 .. Len(rows) |-> [x \in 1 .. Len(rows[y]) |-> h[rows[y][x]]]]

\* getPixelSafe that samples transparent black outside the buffer
getPixelSafe_transparent(pixels, x, y) ==
    IF y >= 0 /\ y < Len(pixels)
    THEN IF x >= 0 /\ x < Len(pixels[y + 1])
         THEN pixels[y + 1][x + 1]
         ELSE TRANSPARENT
    ELSE TRANSPARENT

getPixelSafe(pixels, x, y) ==
    IF y >= 0 /\ y < Len(pixels)
    THEN IF x >= 0 /\ x < Len(pixels[y + 1])
         THEN pixels[y + 1][x + 1]
         ELSE BLACK
    ELSE BLACK

\* a dot map that numbers the left column 1, 2, 3, 4 and the right 5, 6, 7, 8
BRAILLE_DOT_MAP_columns ==
    << [x |-> 0, y |-> 0, bit |-> BRAILLE_DOTS.DOT1],
       [x |-> 0, y |-> 1, bit |-> BRAILLE_DOTS.DOT2],
       [x |-> 0, y |-> 2, bit |-> BRAILLE_DOTS.DOT3],
       [x |-> 0, y |-> 3, bit |-> BRAILLE_DOTS.DOT4],
       [x |-> 1, y |-> 0, bit |-> BRAILLE_DOTS.DOT5],
       [x |-> 1, y |-> 1, bit |-> BRAILLE_DOTS.DOT6],
       [x |-> 1, y |-> 2, bit |-> BRAILLE_DOTS.DOT7],
       [x |-> 1, y |-> 3, bit |-> BRAILLE_DOTS.DOT8] >>

BRAILLE_DOT_MAP ==
    << [x |-> 0, y |-> 0, bit |-> BRAILLE_DOTS.DOT1],
       [x |-> 0, y |-> 1, bit |-> BRAILLE_DOTS.DOT2],
       [x |-> 0, y |-> 2, bit |-> BRAILLE_DOTS.DOT3],
       [x |-> 0, y |-> 3, bit |-> BRAILLE_DOTS.DOT7],
       [x |-> 1, y |-> 0, bit |-> BRAILLE_DOTS.DOT4],
       [x |-> 1, y |-> 1, bit |-> BRAILLE_DOTS.DOT5],
       [x |-> 1, y |-> 2, bit |-> BRAILLE_DOTS.DOT6],
       [x |-> 1, y |-> 3, bit |-> BRAILLE_DOTS.DOT8] >>

RECURSIVE Pow2(_)
\* 1 << i
Pow2(i) == IF i = 0 THEN 1 ELSE 2 * Pow2(i - 1)

RECURSIVE SumSeq(_, _)
SumSeq(q, n) == IF n = 0 THEN 0 ELSE SumSeq(q, n - 1) + q[n]

\* mapRegionToPattern with the bits numbered column by column
mapRegionToPattern_columnMajor(pixels, startX, startY, width, height, threshold) ==
    LET scanned == [i \in 1 .. width * height |->
                       getPixelSafe(pixels, startX + ((i - 1) \div height),
                                    startY + ((i - 1) % height))]
        On(c) == isPixelOn(c, threshold)
        Off(c) == ~isPixelOn(c, threshold)
        bits == [i \in 1 .. Len(scanned) |-> IF On(scanned[i]) THEN Pow2(i - 1) ELSE 0]
    IN [pattern |-> SumSeq(bits, Len(bits)),
        fg |-> averageColors(SelectSeq(scanned, On)),
        bg |-> averageColors(SelectSeq(scanned, Off))]

mapRegionToPattern(pixels, startX, startY, width, height, threshold) ==
    LET scanned == [i \in 1 .. width * height |->
                       getPixelSafe(pixels, startX + ((i - 1) % width),
                                    startY + ((i - 1) \div width))]
        On(c) == isPixelOn(c, threshold)
        Off(c) == ~isPixelOn(c, threshold)
        bits == [i \in 1 .. Len(scanned) |-> IF On(scanned[i]) THEN Pow2(i - 1) ELSE 0]
    IN [pattern |-> SumSeq(bits, Len(bits)),
        fg |-> averageColors(SelectSeq(scanned, On)),
        bg |-> averageColors(SelectSeq(scanned, Off))]

mapBrailleRegion(pixels, startX, startY, threshold) ==
    LET scanned == [i \in 1 .. Len(BRAILLE_DOT_MAP) |->
                       getPixelSafe(pixels, startX + BRAILLE_DOT_MAP[i].x,
                                    startY + BRAILLE_DOT_MAP[i].y)]
        On(c) == isPixelOn(c, threshold)
        Off(c) == ~isPixelOn(c, threshold)
        bits == [i \in 1 .. Len(scanned) |->
                    IF On(scanned[i]) THEN BRAILLE_DOT_MAP[i].bit ELSE 0]
    IN [pattern |-> SumSeq(bits, Len(bits)),
        fg |-> averageColors(SelectSeq(scanned, On)),
        bg |-> averageColors(SelectSeq(scanned, Off))]

RECURSIVE Xor(_, _)
\* a ^ b for a, b >= 0
Xor(a, b) ==
    IF a = 0 /\ b = 0 THEN 0
    ELSE (IF a % 2 = b % 2 THEN 0 ELSE 1) + 2 * Xor(a \div 2, b \div 2)

RECURSIVE countBits(_)
countBits(n) == IF n = 0 THEN 0 ELSE (n % 2) + countBits(n \div 2)

RECURSIVE ClosestFrom_last(_, _, _, _, _)
\* the closest-match loop with `<=` for `<`: the last minimal entry wins
ClosestFrom_last(pattern, symbols, i, best, minDistance) ==
    IF i > Len(symbols) THEN best
    ELSE LET distance == countBits(Xor(pattern, symbols[i].pattern))
         IN IF minDistance < 0 \/ distance <= minDistance
            THEN ClosestFrom_last(pattern, symbols, i + 1, i, distance)
            ELSE ClosestFrom_last(pattern, symbols, i + 1, best, minDistance)

RECURSIVE ClosestFrom(_, _, _, _, _)
\* the second loop of findBestSymbol from entry i on: the index of bestSymbol
ClosestFrom(pattern, symbols, i, best, minDistance) ==
    IF i > Len(symbols) THEN best
    ELSE LET distance == countBits(Xor(pattern, symbols[i].pattern))
         IN IF minDistance < 0 \/ distance < minDistance
            THEN ClosestFrom(pattern, symbols, i + 1, i, distance)
            ELSE ClosestFrom(pattern, symbols, i + 1, best, minDistance)

\* a lookup that takes the pattern for the position in the table
findBestSymbol_index(pattern, symbols) ==
    symbols[Max(1, Min(pattern, Len(symbols)))]

\* minDistance = Infinity is modelled by -1
findBestSymbol(pattern, symbols) ==
    LET exact == {i \in 1 .. Len(symbols) : symbols[i].pattern = pattern}
    IN IF exact # {}
       THEN symbols[CHOOSE i \in exact : \A j \in exact : i <= j]
       ELSE IF Len(symbols) = 0
       THEN [char |-> 32, pattern |-> 0, width |-> 1, height |-> 1]
       ELSE symbols[ClosestFrom(pattern, symbols, 1, 1, -1)]

\* Math.ceil(a / b) for a >= 0, b > 0
CeilDiv(a, b) == (a + b - 1) \div b

mapPixelsToCells(pixels, symbolSetName, threshold) ==
    LET symbols == getSymbolSet(symbolSetName)
        dims == getSymbolDimensions(symbolSetName)
    IN IF Len(pixels) = 0 THEN <<>>
       ELSE IF Len(pixels[1]) = 0 THEN <<>>
       ELSE LET cellWidth == CeilDiv(Len(pixels[1]), dims.width)
                cellHeight == CeilDiv(Len(pixels), dims.height)
            IN [cy \in 1 .. cellHeight |->
                 [cx \in 1 .. cellWidth |->
                   LET startX == (cx - 1) * dims.width
                       startY == (cy - 1) * dims.height
                   IN IF symbolSetName = BRAILLE
                      THEN LET result == mapBrailleRegion(pixels, startX, startY, threshold)
                           IN [char |-> getBrailleChar(result.pattern),
                               fg |-> result.fg, bg |-> result.bg]
                      ELSE LET result == mapRegionToPattern(pixels, startX, startY,
                                             dims.width, dims.height, threshold)
                           IN [char |-> findBestSymbol(result.pattern, symbols).char,
                               fg |-> result.fg, bg |-> result.bg]]]

---------------------------------------------------------------------------
(* renderer.ts: render.  A string is the sequence of its tokens: an escape *)
(* sequence, <<"ch", code point>> for a glyph, <<"nl">> for "\n".           *)

\* escapes chosen by comparing r, g and b only
CellEscapes_rgbOnly(cell, lastFg, lastBg, options) ==
    IF options.colorMode = TRUECOLOR
    THEN (IF lastFg = None \/ fgTruecolor(lastFg[1]) # fgTruecolor(cell.fg)
          THEN <<fgTruecolor(cell.fg)>> ELSE <<>>)
         \o (IF lastBg = None \/ bgTruecolor(lastBg[1]) # bgTruecolor(cell.bg)
             THEN <<bgTruecolor(cell.bg)>> ELSE <<>>)
    ELSE <<>>

\* the part of one cell's output that precedes its glyph (lines 79-91)
CellEscapes(cell, lastFg, lastBg, options) ==
    IF options.colorMode = TRUECOLOR
    THEN (IF lastFg = None \/ ~colorsEqual(lastFg[1], cell.fg)
          THEN <<fgTruecolor(cell.fg)>> ELSE <<>>)
         \o (IF lastBg = None \/ ~colorsEqual(lastBg[1], cell.bg)
             THEN <<bgTruecolor(cell.bg)>> ELSE <<>>)
    ELSE <<>>

RECURSIVE CellLoop(_, _, _, _, _)
\* the inner loop from cell i on: lastFg and lastBg are None (null) or Some(color)
CellLoop(row, i, lastFg, lastBg, options) ==
    IF i > Len(row) THEN <<>>
    ELSE LET cell == row[i]
             tc == options.colorMode = TRUECOLOR
             newFg == IF tc /\ (lastFg = None \/ ~colorsEqual(lastFg[1], cell.fg))
                      THEN Some(cell.fg) ELSE lastFg
             newBg == IF tc /\ (lastBg = None \/ ~colorsEqual(lastBg[1], cell.bg))
                      THEN Some(cell.bg) ELSE lastBg
         IN CellEscapes(cell, lastFg, lastBg, options) \o << <<"ch", cell.char>> >>
            \o CellLoop(row, i + 1, newFg, newBg, options)

\* a line that ends with the reset sequence in every colour mode
RowToLine_alwaysReset(row, options) ==
    CellLoop(row, 1, None, None, options) \o <<resetColors>>

\* one element of `lines` (lines 73-101)
RowToLine(row, options) ==
    CellLoop(row, 1, None, None, options)
    \o (IF options.colorMode = TRUECOLOR THEN <<resetColors>> ELSE <<>>)

RECURSIVE JoinLines(_, _)
\* lines.join("\n") of the first n lines
JoinLines(lines, n) ==
    IF n = 0 THEN <<>>
    ELSE IF n = 1 THEN lines[1]
    ELSE JoinLines(lines, n - 1) \o << <<"nl">> >> \o lines[n]

gridToString(grid, options) ==
    IF Len(grid) = 0 THEN <<>>
    ELSE LET lines == [i \in 1 .. Len(grid) |-> RowToLine(grid[i], options)]
         IN JoinLines(lines, Len(lines))

\* { ...base, ...partial }
Overlay(base, partial) ==
    [symbolSet |-> OrElse(partial.symbolSet, base.symbolSet),
     colorMode |-> OrElse(partial.colorMode, base.colorMode),
     threshold |-> OrElse(partial.threshold, base.threshold)]

NoOptions == [symbolSet |-> None, colorMode |-> None, threshold |-> None]

\* render(pixels, options) with this.options = stored
render(stored, pixels, options) ==
    LET opts == Overlay(stored, options)
        grid == mapPixelsToCells(pixels, opts.symbolSet, opts.threshold)
    IN gridToString(grid, opts)

---------------------------------------------------------------------------
(* renderer.ts: the AsciiRenderer instance.  `objs` holds the option objects, *)
(* `this` names the one in this.options, `handed` the one getOptions last     *)
(* returned to the caller (0: none).                                          *)

OptionIds == 1 .. 3

\* the identity of a new object: one that neither the renderer nor the caller holds
NewOptionId(r, keep) == CHOOSE i \in OptionIds : i \notin keep /\ \A j \in OptionIds \ keep : i <= j

\* the objects nobody holds are garbage
Collect(r) ==
    [r EXCEPT !.objs = [i \in OptionIds |->
        IF i = r.this \/ i = r.handed THEN r.objs[i] ELSE DEFAULT_OPTIONS]]

\* new AsciiRenderer(options)
NewRenderer(options) ==
    [this |-> 1, handed |-> 0,
     objs |-> [i \in OptionIds |->
                 IF i = 1 THEN Overlay(DEFAULT_OPTIONS, options) ELSE DEFAULT_OPTIONS]]

\* setOptions(options): this.options = { ...this.options, ...options }
setOptions(r, options) ==
    LET id == NewOptionId(r, {r.this, r.handed})
    IN Collect([r EXCEPT !.this = id,
                         !.objs[id] = Overlay(r.objs[r.this], options)])

\* getOptions that returns this.options itself
getOptions_aliased(r) == Collect([r EXCEPT !.handed = r.this])

\* getOptions(): return { ...this.options }
getOptions(r) ==
    LET id == NewOptionId(r, {r.this})
    IN Collect([r EXCEPT !.handed = id, !.objs[id] = r.objs[r.this]])

\* setSymbolSet(symbolSet): this.options.symbolSet = symbolSet
setSymbolSet(r, symbolSet) == [r EXCEPT !.objs[r.this].symbolSet = symbolSet]

\* setColorMode(colorMode): this.options.colorMode = colorMode
setColorMode(r, colorMode) == [r EXCEPT !.objs[r.this].colorMode = colorMode]

\* renderLine(width, height, x1, y1, x2, y2, color, style, options):
\* [threw, out]; its buffer is its own and is dropped when it returns
renderLine(h, stored, width, height, x1, y1, x2, y2, color, style, options) ==
    LET made == createBuffer(h, 0, width, height, None)
    IN IF made.threw THEN [threw |-> TRUE, out |-> <<>>]
       ELSE LET drawn == drawLine([id |-> made.id, rows |-> made.rows],
                                  x1, y1, x2, y2, color, style)
            IN [threw |-> FALSE,
                out |-> render(stored, Pixels(made.heap, drawn.rows), options)]

---------------------------------------------------------------------------
(* The host application drawing into one buffer *)

HeapRefs == CallerRefs \cup {PixelRef(k) : k \in 1 .. MaxArea}

\* the colour object the host draws with
Ink == <<"caller", 1>>

InitHeap == [ref \in HeapRefs |-> IF ref = Ink THEN WHITE ELSE BLACK]

Idle == [pc |-> "idle"]

Init ==
    /\ heap = InitHeap
    /\ buffer = NoBuffer
    /\ ret = [op |-> "new", threw |-> FALSE]
    /\ renderer = NewRenderer(NoOptions)
    /\ line = Idle
    /\ written = DEFAULT_OPTIONS

\* coordinates inside, around and outside every buffer of the model
Coords == -2 .. MaxArea + 1

BufferRef(buf) == <<"buffer", buf.id>>

CreateBufferCall ==
    \E width \in 1 .. MaxArea, height \in 1 .. MaxArea, fill \in {None, Some(Ink)} :
        /\ width * height <= MaxArea
        /\ LET made == createBuffer(heap, buffer.id, width, height, fill)
           IN /\ buffer' = [id |-> made.id, rows |-> made.rows]
              /\ heap' = made.heap
              /\ ret' = [op |-> "createBuffer", threw |-> FALSE, val |-> <<"buffer", made.id>>]
        /\ UNCHANGED <<renderer, line, written>>

SetPixelCall ==
    \E x \in Coords, y \in Coords :
        /\ buffer' = [buffer EXCEPT !.rows = setPixel(buffer.rows, x, y, Ink)]
        /\ ret' = [op |-> "setPixel", threw |-> FALSE, val |-> Null]
        /\ UNCHANGED <<heap, renderer, line, written>>

ClearCall ==
    \E color \in CallerRefs :
        LET done == clear(heap, buffer, color)
        IN /\ heap' = done.heap
           /\ buffer' = done.buf
           /\ ret' = [op |-> "clear", threw |-> FALSE, val |-> BufferRef(done.buf),
                      color |-> color]
           /\ UNCHANGED <<renderer, line, written>>

\* the line styles the host uses
Styles ==
    {NoStyle,
     [pattern |-> None, thickness |-> Some(2)],
     [pattern |-> Some(<<1, 0>>), thickness |-> None]}

DrawLineCall ==
    \E x1 \in {-2, 0}, y1 \in {-2, 0}, x2 \in {1, MaxArea + 1}, y2 \in {0, 1},
       style \in Styles :
        LET drawn == drawLine(buffer, x1, y1, x2, y2, Ink, style)
        IN /\ buffer' = drawn
           /\ ret' = [op |-> "drawLine", threw |-> FALSE, val |-> BufferRef(drawn)]
           /\ UNCHANGED <<heap, renderer, line, written>>

DrawRectCall ==
    \E x \in {-2, 0}, y \in {-2, 0}, width \in {-1, 1, MaxArea + 3},
       height \in {0, 2, MaxArea + 3}, fill \in BOOLEAN :
        LET drawn == drawRect(buffer, x, y, width, height, Ink, fill)
        IN /\ buffer' = drawn
           /\ ret' = [op |-> "drawRect", threw |-> FALSE, val |-> BufferRef(drawn)]
           /\ UNCHANGED <<heap, renderer, line, written>>

DrawCircleCall ==
    \E cx \in {-2, 0, 1}, cy \in {-2, 0, 1}, radius \in {-1, 0, 1, MaxArea},
       fill \in BOOLEAN :
        LET drawn == drawCircle(buffer, cx, cy, radius, Ink, fill)
        IN /\ buffer' = drawn
           /\ ret' = [op |-> "drawCircle", threw |-> FALSE, val |-> BufferRef(drawn)]
           /\ UNCHANGED <<heap, renderer, line, written>>

Next ==
    \/ CreateBufferCall
    \/ SetPixelCall
    \/ ClearCall
    \/ DrawLineCall
    \/ DrawRectCall
    \/ DrawCircleCall

Spec == Init /\ [][Next]_vars

---------------------------------------------------------------------------
(* The host application clearing a buffer and changing Color objects in place *)

\* the host changes a Color object in place: its own, or the one at a slot
\* (`after` records the last call before the changes)
MutateColor ==
    \E ref \in CallerRefs \cup SlotRefs(buffer.rows), value \in Palette :
        /\ heap[ref] # value
        /\ heap' = [heap EXCEPT ![ref] = value]
        /\ ret' = [op |-> "mutate", threw |-> FALSE, val |-> Null, ref |-> ref,
                   after |-> IF ret.op = "mutate" THEN ret.after ELSE ret.op]
        /\ UNCHANGED <<buffer, renderer, line, written>>

NextClear ==
    \/ CreateBufferCall
    \/ SetPixelCall
    \/ ClearCall
    \/ MutateColor

SpecClear == Init /\ [][NextClear]_vars

---------------------------------------------------------------------------
(* The host application writing and reading single pixels of a buffer it made *)

\* the buffers createBuffer makes, and the empty array
MadeBuffers ==
    {NoBuffer} \cup
    {[id |-> 1, rows |-> FreshRows(width, height)] :
        <<width, height>> \in {d \in (1 .. MaxArea) \X (1 .. MaxArea) : d[1] * d[2] <= MaxArea}}

InitPixel ==
    /\ buffer \in MadeBuffers
    /\ \E fill \in Palette :
          heap = Allocate(InitHeap, Len(buffer.rows) * Width(buffer.rows), fill)
    /\ ret = [op |-> "new", threw |-> FALSE]
    /\ renderer = NewRenderer(NoOptions)
    /\ line = Idle
    /\ written = DEFAULT_OPTIONS

PixelCoords == -1 .. MaxArea

PutPixel ==
    \E x \in PixelCoords, y \in PixelCoords :
        /\ buffer' = [buffer EXCEPT !.rows = setPixel(buffer.rows, x, y, Ink)]
        /\ ret' = [op |-> "setPixel", threw |-> FALSE, val |-> Null,
                   x |-> x, y |-> y, color |-> Ink]
        /\ UNCHANGED <<heap, renderer, line, written>>

ReadPixel ==
    \E x \in PixelCoords, y \in PixelCoords :
        /\ ret' = [op |-> "getPixel", threw |-> FALSE,
                   val |-> getPixel(buffer.rows, x, y), x |-> x, y |-> y]
        /\ UNCHANGED <<heap, buffer, renderer, line, written>>

NextPixel ==
    \/ PutPixel
    \/ ReadPixel

SpecPixel == InitPixel /\ [][NextPixel]_vars

---------------------------------------------------------------------------
(* The host application making buffers, and every call reporting a failure *)

RenderCall(overrides) ==
    \E options \in overrides :
        /\ ret' = [op |-> "render", threw |-> FALSE, options |-> options,
                   out |-> render(renderer.objs[renderer.this],
                                  Pixels(heap, buffer.rows), options)]
        /\ UNCHANGED <<heap, buffer, renderer, line, written>>

\* render overrides: none, and glyphs only
FewOverrides ==
    {NoOptions, [symbolSet |-> Some(ASCII), colorMode |-> Some(NONE), threshold |-> None]}

NewBufferCall ==
    \E width \in -1 .. MaxArea, height \in -1 .. MaxArea, fill \in {None, Some(Ink)} :
        /\ width * height <= MaxArea
        /\ LET made == createBuffer(heap, buffer.id, width, height, fill)
           IN IF made.threw
              THEN /\ ret' = [op |-> "createBuffer", threw |-> TRUE, val |-> Null,
                              width |-> width, height |-> height, fill |-> fill]
                   /\ UNCHANGED <<heap, buffer>>
              ELSE /\ buffer' = [id |-> made.id, rows |-> made.rows]
                   /\ heap' = made.heap
                   /\ ret' = [op |-> "createBuffer", threw |-> FALSE,
                              val |-> <<"buffer", made.id>>,
                              width |-> width, height |-> height, fill |-> fill]
        /\ UNCHANGED <<renderer, line, written>>

RenderLineCall ==
    \E width \in -1 .. 2, height \in -1 .. 2, options \in FewOverrides,
       ends \in {<<0, 0, MaxArea, 1>>} :
        /\ LET done == renderLine(heap, renderer.objs[renderer.this], width, height,
                                  ends[1], ends[2], ends[3], ends[4], Ink,
                                  [pattern |-> None, thickness |-> Some(2)], options)
           IN ret' = [op |-> "renderLine", threw |-> done.threw, out |-> done.out,
                      width |-> width, height |-> height]
        /\ UNCHANGED <<heap, buffer, renderer, line, written>>

\* one call of each drawing and rendering operation
OtherCall ==
    \/ \E x \in {-2, 0}, y \in {0} :
          /\ buffer' = [buffer EXCEPT !.rows = setPixel(buffer.rows, x, y, Ink)]
          /\ ret' = [op |-> "setPixel", threw |-> FALSE, val |-> Null]
          /\ UNCHANGED <<heap, renderer, line, written>>
    \/ \E x \in {-2, 0}, y \in {0} :
          /\ ret' = [op |-> "getPixel", threw |-> FALSE, val |-> getPixel(buffer.rows, x, y)]
          /\ UNCHANGED <<heap, buffer, renderer, line, written>>
    \/ \E x2 \in {-2, MaxArea}, style \in Styles :
          /\ buffer' = drawLine(buffer, 0, 0, x2, 1, Ink, style)
          /\ ret' = [op |-> "drawLine", threw |-> FALSE, val |-> BufferRef(buffer)]
          /\ UNCHANGED <<heap, renderer, line, written>>
    \/ \E width \in {-1, MaxArea + 3}, fill \in BOOLEAN :
          /\ buffer' = drawRect(buffer, -1, 0, width, 2, Ink, fill)
          /\ ret' = [op |-> "drawRect", threw |-> FALSE, val |-> BufferRef(buffer)]
          /\ UNCHANGED <<heap, renderer, line, written>>
    \/ \E radius \in {-1, 1}, fill \in BOOLEAN :
          /\ buffer' = drawCircle(buffer, 1, 0, radius, Ink, fill)
          /\ ret' = [op |-> "drawCircle", threw |-> FALSE, val |-> BufferRef(buffer)]
          /\ UNCHANGED <<heap, renderer, line, written>>
    \/ ClearCall
    \/ RenderCall(FewOverrides)

NextCreate ==
    \/ NewBufferCall
    \/ RenderLineCall
    \/ OtherCall

SpecCreate == Init /\ [][NextCreate]_vars

---------------------------------------------------------------------------
(* drawLine, one loop iteration at a time, on a buffer createBuffer just made *)

LineCoords == -1 .. MaxLine

LinePatterns == {None, Some(<<1, 0, 0>>), Some(<<2, 1>>), Some(<<>>)}

LineStyles ==
    {[pattern |-> p, thickness |-> t] : p \in LinePatterns, t \in {None, Some(2), Some(3)}}

LineHeap ==
    [ref \in CallerRefs \cup {PixelRef(n) : n \in 1 .. MaxLine * MaxLine} |->
        IF ref = Ink THEN WHITE ELSE BLACK]

LineBuffer == [id |-> 1, rows |-> FreshRows(MaxLine, MaxLine)]

\* drawLine entered: the constants are computed, the loop is about to start
InitLine ==
    /\ heap = LineHeap
    /\ buffer = LineBuffer
    /\ ret = [op |-> "createBuffer", threw |-> FALSE, val |-> BufferRef(LineBuffer)]
    /\ renderer = NewRenderer(NoOptions)
    /\ written = DEFAULT_OPTIONS
    /\ \E x1 \in LineCoords, y1 \in LineCoords, x2 \in LineCoords, y2 \in LineCoords,
          style \in LineStyles :
          line = [pc |-> "loop", x1 |-> x1, y1 |-> y1, x2 |-> x2, y2 |-> y2,
                  style |-> style,
                  k |-> LineSetup(x1, y1, x2, y2),
                  l |-> LineStart(x1, y1, x2, y2),
                  path |-> <<>>]

\* one iteration of `while (true)`; `path` records where each iteration stood
LineIterate ==
    /\ line.pc = "loop"
    /\ buffer' = [buffer EXCEPT
                    !.rows = LineDraw(buffer.rows, line.l, line.k, Ink, line.style)]
    /\ line' = IF LineDone(line.l, line.k)
               THEN [line EXCEPT !.pc = "done",
                                 !.path = Append(line.path, <<line.l.x, line.l.y>>)]
               ELSE [line EXCEPT !.l = LineAdvance(line.l, line.k),
                                 !.path = Append(line.path, <<line.l.x, line.l.y>>)]
    /\ UNCHANGED <<heap, ret, renderer, written>>

\* return buffer
LineReturn ==
    /\ line.pc = "done"
    /\ line' = [line EXCEPT !.pc = "returned"]
    /\ ret' = [op |-> "drawLine", threw |-> FALSE, val |-> BufferRef(buffer)]
    /\ UNCHANGED <<heap, buffer, renderer, written>>

NextLine ==
    \/ LineIterate
    \/ LineReturn

SpecLine == InitLine /\ [][NextLine]_vars

---------------------------------------------------------------------------
(* The host application configuring one renderer and rendering one buffer. *)
(* `written` is the record of what the constructor and the setters wrote.  *)

RED == [r |-> 200, g |-> 0, b |-> 0, a |-> None]

OptsSymbolSets == {HALF, ASCII, BRAILLE}
OptsThresholds == {DEFAULT_OPTIONS.threshold, 50}

\* Partial<RenderOptions> arguments
OptPartials ==
    {NoOptions,
     [symbolSet |-> Some(ASCII), colorMode |-> None, threshold |-> None],
     [symbolSet |-> None, colorMode |-> Some(NONE), threshold |-> None],
     [symbolSet |-> None, colorMode |-> None, threshold |-> Some(50)],
     [symbolSet |-> Some(BRAILLE), colorMode |-> Some(NONE), threshold |-> Some(50)],
     [symbolSet |-> Some(HALF), colorMode |-> Some(TRUECOLOR), threshold |-> Some(128)]}

\* what a partial leaves of `base`, field by field
Written(base, partial) ==
    [f \in {"symbolSet", "colorMode", "threshold"} |->
        IF partial[f] = None THEN base[f] ELSE partial[f][1]]

\* a 2 x 2 buffer: white, red / black, white
InitOpts ==
    /\ buffer = [id |-> 1, rows |-> FreshRows(2, 2)]
    /\ heap = [ref \in HeapRefs |->
                 IF ref \in {PixelRef(1), PixelRef(4), Ink} THEN WHITE
                 ELSE IF ref = PixelRef(2) THEN RED ELSE BLACK]
    /\ line = Idle
    /\ \E options \in OptPartials :
          /\ renderer = NewRenderer(options)
          /\ written = Written(DEFAULT_OPTIONS, options)
          /\ ret = [op |-> "new", threw |-> FALSE, options |-> options]

SetOptionsCall ==
    \E options \in OptPartials :
        /\ renderer' = setOptions(renderer, options)
        /\ written' = Written(written, options)
        /\ ret' = [op |-> "setOptions", threw |-> FALSE]
        /\ UNCHANGED <<heap, buffer, line>>

SetSymbolSetCall ==
    \E symbolSet \in OptsSymbolSets :
        /\ renderer' = setSymbolSet(renderer, symbolSet)
        /\ written' = [written EXCEPT !.symbolSet = symbolSet]
        /\ ret' = [op |-> "setSymbolSet", threw |-> FALSE]
        /\ UNCHANGED <<heap, buffer, line>>

SetColorModeCall ==
    \E colorMode \in ColorModes :
        /\ renderer' = setColorMode(renderer, colorMode)
        /\ written' = [written EXCEPT !.colorMode = colorMode]
        /\ ret' = [op |-> "setColorMode", threw |-> FALSE]
        /\ UNCHANGED <<heap, buffer, line>>

GetOptionsCall ==
    /\ renderer' = getOptions(renderer)
    /\ ret' = [op |-> "getOptions", threw |-> FALSE,
               val |-> renderer'.objs[renderer'.handed]]
    /\ UNCHANGED <<heap, buffer, line, written>>

\* the caller assigns to a field of the object getOptions returned
MutateReturned ==
    /\ renderer.handed # 0
    /\ \/ \E symbolSet \in OptsSymbolSets :
             renderer' = [renderer EXCEPT !.objs[renderer.handed].symbolSet = symbolSet]
       \/ \E colorMode \in ColorModes :
             renderer' = [renderer EXCEPT !.objs[renderer.handed].colorMode = colorMode]
       \/ \E threshold \in OptsThresholds :
             renderer' = [renderer EXCEPT !.objs[renderer.handed].threshold = threshold]
    /\ ret' = [op |-> "mutate", threw |-> FALSE]
    /\ UNCHANGED <<heap, buffer, line, written>>

NextOpts ==
    \/ SetOptionsCall
    \/ SetSymbolSetCall
    \/ SetColorModeCall
    \/ GetOptionsCall
    \/ MutateReturned
    \/ RenderCall(OptPartials)

SpecOpts == InitOpts /\ [][NextOpts]_vars

---------------------------------------------------------------------------
(* The host application rendering a buffer of any content *)

\* white with alpha 200: as bright as WHITE, not colorsEqual to it
DIM == [r |-> 255, g |-> 255, b |-> 255, a |-> Some(200)]

RenderPalette == {BLACK, WHITE, DIM, RED}

\* overrides that choose the glyphs; the colour mode is the stored one
RenderOverrides ==
    {[symbolSet |-> Some(s), colorMode |-> None, threshold |-> Some(t)] :
        s \in SymbolSets, t \in OptsThresholds}

InitRender ==
    /\ \E width \in 1 .. MaxRender, height \in 1 .. MaxRender :
          /\ width * height <= MaxRender
          /\ buffer = [id |-> 1, rows |-> FreshRows(width, height)]
          /\ \E colors \in [1 .. width * height -> RenderPalette] :
                heap = [ref \in HeapRefs |->
                          IF ref \in CallerRefs THEN InitHeap[ref]
                          ELSE IF ref[2] <= width * height THEN colors[ref[2]]
                          ELSE BLACK]
    /\ ret = [op |-> "new", threw |-> FALSE]
    /\ renderer = NewRenderer(NoOptions)
    /\ line = Idle
    /\ written = DEFAULT_OPTIONS

NextRender ==
    \/ SetColorModeCall
    \/ RenderCall(RenderOverrides)

SpecRender == InitRender /\ [][NextRender]_vars

---------------------------------------------------------------------------
(* drawRect, called once on a buffer createBuffer just made *)

RectSizes == -1 .. MaxLine + 1

\* the call is about to be made: `line` holds its arguments
InitRect ==
    /\ heap = LineHeap
    /\ buffer = LineBuffer
    /\ ret = [op |-> "createBuffer", threw |-> FALSE, val |-> BufferRef(LineBuffer)]
    /\ renderer = NewRenderer(NoOptions)
    /\ written = DEFAULT_OPTIONS
    /\ \E x \in LineCoords, y \in LineCoords, width \in RectSizes, height \in RectSizes,
          fill \in BOOLEAN :
          line = [pc |-> "drawRect", x |-> x, y |-> y, width |-> width,
                  height |-> height, fill |-> fill]

RectCall ==
    /\ line.pc = "drawRect"
    /\ buffer' = drawRect(buffer, line.x, line.y, line.width, line.height, Ink, line.fill)
    /\ ret' = [op |-> "drawRect", threw |-> FALSE, val |-> BufferRef(buffer')]
    /\ line' = [line EXCEPT !.pc = "returned"]
    /\ UNCHANGED <<heap, renderer, written>>

NextRect == RectCall

SpecRect == InitRect /\ [][NextRect]_vars

---------------------------------------------------------------------------
(* drawCircle, one loop iteration at a time, on a buffer createBuffer just made *)

CircleSide == 2 * MaxRadius + 1

CircleHeap ==
    [ref \in CallerRefs \cup {PixelRef(n) : n \in 1 .. CircleSide * CircleSide} |->
        IF ref = Ink THEN WHITE ELSE BLACK]

CircleBuffer == [id |-> 1, rows |-> FreshRows(CircleSide, CircleSide)]

\* centres: outside the buffer, near its corner, in its middle
CircleCentres == {-1, 1, MaxRadius}

InitCircle ==
    /\ heap = CircleHeap
    /\ buffer = CircleBuffer
    /\ ret = [op |-> "createBuffer", threw |-> FALSE, val |-> BufferRef(CircleBuffer)]
    /\ renderer = NewRenderer(NoOptions)
    /\ written = DEFAULT_OPTIONS
    /\ \E cx \in CircleCentres, cy \in CircleCentres, radius \in -1 .. MaxRadius,
          fill \in BOOLEAN :
          line = [pc |-> "drawCircle", cx |-> cx, cy |-> cy, radius |-> radius,
                  fill |-> fill, c |-> [x |-> 0, y |-> 0, err |-> 0], n |-> 0]

\* if (radius < 0) return buffer; let x = radius; let y = 0; let err = 0
CircleEnter ==
    /\ line.pc = "drawCircle"
    /\ line' = IF line.radius < 0
               THEN [line EXCEPT !.pc = "done"]
               ELSE [line EXCEPT !.pc = "loop",
                                 !.c = [x |-> line.radius, y |-> 0, err |-> 0]]
    /\ UNCHANGED <<heap, buffer, ret, renderer, written>>

\* the test of `while (x >= y)` and, when it holds, one iteration; n counts them
CircleIterate ==
    /\ line.pc = "loop"
    /\ IF line.c.x >= line.c.y
       THEN LET pts == CirclePoints(line.cx, line.cy, line.c.x, line.c.y, line.fill)
            IN /\ buffer' = [buffer EXCEPT
                               !.rows = setPixels(buffer.rows, pts, Len(pts), Ink)]
               /\ line' = [line EXCEPT !.c = CircleAdvance(line.c), !.n = line.n + 1]
       ELSE /\ line' = [line EXCEPT !.pc = "done"]
            /\ UNCHANGED buffer
    /\ UNCHANGED <<heap, ret, renderer, written>>

\* return buffer
CircleReturn ==
    /\ line.pc = "done"
    /\ line' = [line EXCEPT !.pc = "returned"]
    /\ ret' = [op |-> "drawCircle", threw |-> FALSE, val |-> BufferRef(buffer)]
    /\ UNCHANGED <<heap, buffer, renderer, written>>

NextCircle ==
    \/ CircleEnter
    \/ CircleIterate
    \/ CircleReturn

SpecCircle == InitCircle /\ [][NextCircle]_vars

---------------------------------------------------------------------------
(* mapPixelsToCells, called once on a buffer of any content *)

\* bright but transparent: alpha below ALPHA_THRESHOLD
GHOST == [r |-> 255, g |-> 255, b |-> 255, a |-> Some(100)]

CellPalette == {BLACK, WHITE, RED, GHOST}

\* the shapes and colours of the mapped buffers: every shape of area <=
\* MaxCells in every colour, one sextant cell and one braille cell in black
\* and white, and the two empty buffers [] and [[]]
CellShapes ==
    {[width |-> d[1], height |-> d[2], colors |-> CellPalette] :
        d \in {e \in (1 .. MaxCells) \X (1 .. MaxCells) : e[1] * e[2] <= MaxCells}}
    \cup {[width |-> 2, height |-> 3, colors |-> {BLACK, WHITE}],
          [width |-> 2, height |-> 4, colors |-> {BLACK, WHITE}],
          [width |-> 0, height |-> 0, colors |-> {BLACK}],
          [width |-> 0, height |-> 1, colors |-> {BLACK}]}

CellRefs == CallerRefs \cup {PixelRef(n) : n \in 1 .. Max(MaxCells, 8)}

\* the call is about to be made: `line` holds its arguments
InitCells ==
    /\ \E shape \in CellShapes :
          /\ buffer = [id |-> 1, rows |-> FreshRows(shape.width, shape.height)]
          /\ \E colors \in [1 .. shape.width * shape.height -> shape.colors] :
                heap = [ref \in CellRefs |->
                          IF ref \in CallerRefs THEN InitHeap[ref]
                          ELSE IF ref[2] <= shape.width * shape.height THEN colors[ref[2]]
                          ELSE BLACK]
    /\ \E symbolSet \in SymbolSets, threshold \in OptsThresholds :
          line = [pc |-> "mapPixelsToCells", symbolSet |-> symbolSet,
                  threshold |-> threshold]
    /\ ret = [op |-> "new", threw |-> FALSE]
    /\ renderer = NewRenderer(NoOptions)
    /\ written = DEFAULT_OPTIONS

MapCall ==
    /\ line.pc = "mapPixelsToCells"
    /\ ret' = [op |-> "mapPixelsToCells", threw |-> FALSE,
               val |-> mapPixelsToCells(Pixels(heap, buffer.rows),
                                        line.symbolSet, line.threshold)]
    /\ line' = [line EXCEPT !.pc = "returned"]
    /\ UNCHANGED <<heap, buffer, renderer, written>>

NextCells == MapCall

SpecCells == InitCells /\ [][NextCells]_vars

---------------------------------------------------------------------------
(* The two ways to a braille glyph: the table search and the direct formula *)

BraillePatterns == 0 .. 255

\* the pattern of a braille cell has been computed: `line` holds it
InitBraille ==
    /\ heap = InitHeap
    /\ buffer = NoBuffer
    /\ ret = [op |-> "new", threw |-> FALSE]
    /\ renderer = NewRenderer(NoOptions)
    /\ written = DEFAULT_OPTIONS
    /\ \E pattern \in BraillePatterns :
          line = [pc |-> "findBestSymbol", pattern |-> pattern, char |-> 0]

\* findBestSymbol(pattern, getSymbolSet(SymbolSet.BRAILLE))
FindBestSymbolCall ==
    /\ line.pc = "findBestSymbol"
    /\ ret' = [op |-> "findBestSymbol", threw |-> FALSE,
               val |-> findBestSymbol(line.pattern, getSymbolSet(BRAILLE))]
    /\ line' = [line EXCEPT !.pc = "getBrailleChar"]
    /\ UNCHANGED <<heap, buffer, renderer, written>>

\* const char = getBrailleChar(result.pattern)
GetBrailleCharCall ==
    /\ line.pc = "getBrailleChar"
    /\ line' = [line EXCEPT !.pc = "returned", !.char = getBrailleChar(line.pattern)]
    /\ UNCHANGED <<heap, buffer, ret, renderer, written>>

NextBraille ==
    \/ FindBestSymbolCall
    \/ GetBrailleCharCall

SpecBraille == InitBraille /\ [][NextBraille]_vars

---------------------------------------------------------------------------
(* The block tables searched for a pattern *)

BlockSets == {HALF, QUADRANT, SEXTANT}

BlockPatterns == 0 .. 63

\* the pattern of a cell has been computed: `line` holds it and the symbol set
InitTables ==
    /\ heap = InitHeap
    /\ buffer = NoBuffer
    /\ ret = [op |-> "new", threw |-> FALSE]
    /\ renderer = NewRenderer(NoOptions)
    /\ written = DEFAULT_OPTIONS
    /\ \E symbolSet \in BlockSets, pattern \in BlockPatterns :
          line = [pc |-> "findBestSymbol", symbolSet |-> symbolSet, pattern |-> pattern]

\* findBestSymbol(result.pattern, symbols)
TableLookupCall ==
    /\ line.pc = "findBestSymbol"
    /\ ret' = [op |-> "findBestSymbol", threw |-> FALSE,
               val |-> findBestSymbol(line.pattern, getSymbolSet(line.symbolSet))]
    /\ line' = [line EXCEPT !.pc = "returned"]
    /\ UNCHANGED <<heap, buffer, renderer, written>>

NextTables == TableLookupCall

SpecTables == InitTables /\ [][NextTables]_vars

---------------------------------------------------------------------------
(* The colour helpers, called with arguments of every kind *)

\* the longest string handed to hex: "#" and six characters
MaxHexLen == 7

\* two digits, a letter that is no digit, a sign, and the hash
HexAlphabet == {"1", "f", "g", "-", "#"}

HexStrings == UNION {[1 .. n -> HexAlphabet] : n \in 0 .. MaxHexLen}

\* channel arguments below, inside and above the range of a byte
ChannelInputs == {-1, 0, 128, 255, 256}

\* Color objects a caller may build by hand, with channels out of range
OVER == [r |-> 300, g |-> -20, b |-> 128, a |-> Some(400)]
UNDER == [r |-> 10, g |-> 20, b |-> 30, a |-> Some(-10)]

\* a fully transparent Color that still carries a colour
CLEAR_RED == [r |-> 200, g |-> 10, b |-> 30, a |-> Some(0)]

InRangeColors == {BLACK, WHITE, TRANSPARENT, RED, GHOST, CLEAR_RED}

ColorInputs == InRangeColors \cup {OVER, UNDER}

\* interpolation factors below, inside and above [0, 1]
TInputs == {[num |-> -1, den |-> 1], [num |-> 0, den |-> 1], [num |-> 1, den |-> 4],
            [num |-> 1, den |-> 2], [num |-> 1, den |-> 1], [num |-> 2, den |-> 1]}

ColorLists == {<<>>} \cup {<<c>> : c \in ColorInputs}
              \cup {<<c, d>> : c \in ColorInputs, d \in ColorInputs}

\* a call of one helper is pending: `line` holds its name and arguments
InitColors ==
    /\ heap = InitHeap
    /\ buffer = NoBuffer
    /\ ret = [op |-> "new", threw |-> FALSE]
    /\ renderer = NewRenderer(NoOptions)
    /\ written = DEFAULT_OPTIONS
    /\ \/ \E r \in ChannelInputs, g \in ChannelInputs, b \in ChannelInputs,
             a \in {None} \cup {Some(v) : v \in ChannelInputs} :
             line = [pc |-> "rgb", args |-> <<r, g, b, a>>]
       \/ \E hexStr \in HexStrings : line = [pc |-> "hex", args |-> <<hexStr>>]
       \/ \E colors \in ColorLists : line = [pc |-> "averageColors", args |-> <<colors>>]
       \/ \E fg \in ColorInputs, bg \in ColorInputs :
             line = [pc |-> "blendColors", args |-> <<fg, bg>>]
       \/ \E c1 \in ColorInputs, c2 \in ColorInputs, t \in TInputs :
             line = [pc |-> "interpolateColor", args |-> <<c1, c2, t>>]
       \/ \E color \in InRangeColors : line = [pc |-> "invertColor", args |-> <<color>>]

Returns(op, val) ==
    /\ ret' = [op |-> op, threw |-> FALSE, val |-> val]
    /\ line' = [line EXCEPT !.pc = "returned"]
    /\ UNCHANGED <<heap, buffer, renderer, written>>

RgbCall ==
    /\ line.pc = "rgb"
    /\ Returns("rgb", rgb(line.args[1], line.args[2], line.args[3], line.args[4]))

HexCall ==
    /\ line.pc = "hex"
    /\ Returns("hex", hex(line.args[1]))

AverageCall ==
    /\ line.pc = "averageColors"
    /\ Returns("averageColors", averageColors(line.args[1]))

BlendCall ==
    /\ line.pc = "blendColors"
    /\ Returns("blendColors", blendColors(line.args[1], line.args[2]))

InterpolateCall ==
    /\ line.pc = "interpolateColor"
    /\ Returns("interpolateColor",
               interpolateColor(line.args[1], line.args[2], line.args[3]))

InvertCall ==
    /\ line.pc = "invertColor"
    /\ Returns("invertColor", invertColor(line.args[1]))

NextColors ==
    \/ RgbCall
    \/ HexCall
    \/ AverageCall
    \/ BlendCall
    \/ InterpolateCall
    \/ InvertCall

SpecColors == InitColors /\ [][NextColors]_vars

---------------------------------------------------------------------------
(* findBestSymbol on the built-in tables and on tables a caller builds *)

\* the longest table a caller builds
MaxTable == 3

\* the patterns of the entries of a caller's table
EntryPatterns == {0, 1, 3, 6}

\* a caller's table: entry i has the glyph "A" + i, so that entries with one
\* pattern are told apart
CallerTables ==
    {[i \in 1 .. n |-> [char |-> 64 + i, pattern |-> ps[i], width |-> 1, height |-> 1]] :
        n \in 1 .. MaxTable, ps \in [1 .. MaxTable -> EntryPatterns]}

LookupTables == {getSymbolSet(s) : s \in SymbolSets} \cup CallerTables

\* every pattern of up to eight bits
LookupPatterns == 0 .. 255

InitLookup ==
    /\ heap = InitHeap
    /\ buffer = NoBuffer
    /\ ret = [op |-> "new", threw |-> FALSE]
    /\ renderer = NewRenderer(NoOptions)
    /\ written = DEFAULT_OPTIONS
    /\ \E symbols \in LookupTables, pattern \in LookupPatterns :
          line = [pc |-> "findBestSymbol", symbols |-> symbols, pattern |-> pattern]

\* findBestSymbol(pattern, symbols)
LookupCall ==
    /\ line.pc = "findBestSymbol"
    /\ ret' = [op |-> "findBestSymbol", threw |-> FALSE,
               val |-> findBestSymbol(line.pattern, line.symbols)]
    /\ line' = [line EXCEPT !.pc = "returned"]
    /\ UNCHANGED <<heap, buffer, renderer, written>>

NextLookup == LookupCall

SpecLookup == InitLookup /\ [][NextLookup]_vars

---------------------------------------------------------------------------
(* One 2 x 4 region read by mapBrailleRegion and by mapRegionToPattern *)

\* the origins of the region: inside the buffer, and partly or wholly outside
RegionOrigins == {0, 1}

\* both calls are about to be made on one buffer, origin and threshold
InitRegion ==
    /\ \E shape \in CellShapes :
          /\ buffer = [id |-> 1, rows |-> FreshRows(shape.width, shape.height)]
          /\ \E colors \in [1 .. shape.width * shape.height -> shape.colors] :
                heap = [ref \in CellRefs |->
                          IF ref \in CallerRefs THEN InitHeap[ref]
                          ELSE IF ref[2] <= shape.width * shape.height THEN colors[ref[2]]
                          ELSE BLACK]
    /\ \E startX \in RegionOrigins, startY \in RegionOrigins, threshold \in OptsThresholds :
          line = [pc |-> "regions", startX |-> startX, startY |-> startY,
                  threshold |-> threshold, braille |-> None, generic |-> None]
    /\ ret = [op |-> "new", threw |-> FALSE]
    /\ renderer = NewRenderer(NoOptions)
    /\ written = DEFAULT_OPTIONS

\* mapBrailleRegion(pixels, startX, startY, threshold)
MapBrailleRegionCall ==
    /\ line.pc = "regions"
    /\ line.braille = None
    /\ LET result == mapBrailleRegion(Pixels(heap, buffer.rows), line.startX,
                                      line.startY, line.threshold)
       IN /\ ret' = [op |-> "mapBrailleRegion", threw |-> FALSE, val |-> result]
          /\ line' = [line EXCEPT !.braille = Some(result)]
    /\ UNCHANGED <<heap, buffer, renderer, written>>

\* mapRegionToPattern(pixels, startX, startY, 2, 4, threshold)
MapRegionToPatternCall ==
    /\ line.pc = "regions"
    /\ line.generic = None
    /\ LET result == mapRegionToPattern(Pixels(heap, buffer.rows), line.startX,
                                        line.startY, 2, 4, line.threshold)
       IN /\ ret' = [op |-> "mapRegionToPattern", threw |-> FALSE, val |-> result]
          /\ line' = [line EXCEPT !.generic = Some(result)]
    /\ UNCHANGED <<heap, buffer, renderer, written>>

NextRegion ==
    \/ MapBrailleRegionCall
    \/ MapRegionToPatternCall

SpecRegion == InitRegion /\ [][NextRegion]_vars

---------------------------------------------------------------------------
(* Claims about the buffer *)

Positions(rows) == {p \in (1 .. Len(rows)) \X (1 .. Width(rows)) : TRUE}

\* the colour value seen at row p[1], column p[2]
ValueAt(h, rows, p) == h[rows[p[1]][p[2]]]

DrawingOps == {"setPixel", "drawLine", "drawRect", "drawCircle", "clear"}

\* C2: a setPixel, drawLine, drawRect, drawCircle or clear call, whatever its
\* arguments, leaves the buffer with the same number of rows and every row with
\* the same length, and drawLine, drawRect, drawCircle and clear return the very
\* buffer they were given.
C2_ShapeKept ==
    [][ret'.op \in DrawingOps =>
        /\ buffer'.id = buffer.id
        /\ Len(buffer'.rows) = Len(buffer.rows)
        /\ \A y \in 1 .. Len(buffer.rows) : Len(buffer'.rows[y]) = Len(buffer.rows[y])
        /\ \A y \in 1 .. Len(buffer'.rows) : Len(buffer'.rows[y]) = Width(buffer'.rows)
        /\ ret'.op # "setPixel" => ret'.val = BufferRef(buffer)]_vars

\* a 2 x 2 buffer that a line reaching far outside it has been drawn into
C2_Witness ==
    /\ ret.op = "drawLine"
    /\ Len(buffer.rows) = 2 /\ Width(buffer.rows) = 2
    /\ buffer.rows[1][1] = Ink /\ buffer.rows[2][2] = Ink
    /\ buffer.rows[2][1] # Ink

\* C4: after clear(buffer, color) every pixel equals `color` by value, no two
\* positions hold the same Color object and none holds a caller's object; a
\* later in-place change of the object at one position, or of a caller's
\* object, changes the value at no other position.
C4_ClearCopies ==
    [][/\ ret'.op = "clear" =>
            /\ \A p \in Positions(buffer'.rows) :
                  /\ ValueAt(heap', buffer'.rows, p) = heap[ret'.color]
                  /\ buffer'.rows[p[1]][p[2]] \notin CallerRefs
            /\ \A p, q \in Positions(buffer'.rows) :
                  p # q => buffer'.rows[p[1]][p[2]] # buffer'.rows[q[1]][q[2]]
       /\ (ret'.op = "mutate" /\ ret'.after = "clear") =>
            \A p \in Positions(buffer.rows) :
                ValueAt(heap', buffer.rows, p) # ValueAt(heap, buffer.rows, p)
                    => /\ ret'.ref = buffer.rows[p[1]][p[2]]
                       /\ \A q \in Positions(buffer.rows) \ {p} :
                             ValueAt(heap', buffer.rows, q) = ValueAt(heap, buffer.rows, q)
      ]_vars

\* a cleared 2 x 2 buffer whose first pixel was then changed in place: the
\* other pixels still have the colour it was cleared with
C4_Witness ==
    /\ ret.op = "mutate" /\ ret.after = "clear"
    /\ Len(buffer.rows) = 2 /\ Width(buffer.rows) = 2
    /\ ret.ref = buffer.rows[1][1]
    /\ heap[buffer.rows[1][1]] = BLACK
    /\ \A p \in Positions(buffer.rows) \ {<<1, 1>>} : ValueAt(heap, buffer.rows, p) = WHITE

\* 0 <= y < height and 0 <= x < width
InBounds(rows, x, y) == y >= 0 /\ y < Len(rows) /\ x >= 0 /\ x < Width(rows)

\* C1: inside the buffer, setPixel(x, y, c) makes getPixel(x, y) return c and
\* leaves every other pixel as it was; outside, setPixel changes no pixel and
\* getPixel returns null; getPixel changes nothing and returns the pixel's
\* object inside.
C1_SetGetPixel ==
    [][/\ ret'.op = "setPixel" =>
            IF InBounds(buffer.rows, ret'.x, ret'.y)
            THEN /\ getPixel(buffer'.rows, ret'.x, ret'.y) = ret'.color
                 /\ buffer'.rows[ret'.y + 1][ret'.x + 1] = ret'.color
                 /\ Len(buffer'.rows) = Len(buffer.rows)
                 /\ \A y \in 1 .. Len(buffer.rows) :
                       /\ Len(buffer'.rows[y]) = Len(buffer.rows[y])
                       /\ \A x \in 1 .. Len(buffer.rows[y]) :
                             <<x - 1, y - 1>> # <<ret'.x, ret'.y>>
                                => buffer'.rows[y][x] = buffer.rows[y][x]
            ELSE /\ buffer' = buffer
                 /\ getPixel(buffer'.rows, ret'.x, ret'.y) = Null
       /\ ret'.op = "getPixel" =>
            /\ buffer' = buffer
            /\ ret'.val = IF InBounds(buffer.rows, ret'.x, ret'.y)
                          THEN buffer.rows[ret'.y + 1][ret'.x + 1]
                          ELSE Null
       /\ ret'.op \in {"setPixel", "getPixel"} => ~ret'.threw
      ]_vars

\* a pixel read back after it was set, in a buffer whose other pixels are untouched
C1_Witness ==
    /\ ret.op = "getPixel" /\ ret.x = 1 /\ ret.y = 0
    /\ ret.val = Ink
    /\ Len(buffer.rows) = 2 /\ Width(buffer.rows) = 2
    /\ \A p \in Positions(buffer.rows) \ {<<1, 2>>} : buffer.rows[p[1]][p[2]] # Ink

\* C3: createBuffer(width, height, fill) fails and returns nothing exactly when
\* width <= 0 or height <= 0; otherwise it returns `height` rows of `width`
\* pixels, each equal by value to `fill` (opaque black without one).  renderLine
\* fails under the same condition, and no other call fails.
C3_CreateBuffer ==
    /\ ret.op = "createBuffer" =>
          /\ ret.threw <=> (ret.width <= 0 \/ ret.height <= 0)
          /\ ret.threw => ret.val = Null
          /\ ~ret.threw =>
                /\ ret.val = BufferRef(buffer)
                /\ Len(buffer.rows) = ret.height
                /\ \A y \in 1 .. Len(buffer.rows) :
                      /\ Len(buffer.rows[y]) = ret.width
                      /\ \A x \in 1 .. ret.width :
                            heap[buffer.rows[y][x]] =
                                IF ret.fill = None THEN BLACK ELSE heap[ret.fill[1]]
    /\ ret.op = "renderLine" => (ret.threw <=> (ret.width <= 0 \/ ret.height <= 0))
    /\ ret.op \notin {"createBuffer", "renderLine"} => ~ret.threw

\* createBuffer(2, 2, white) has returned a 2 x 2 buffer of white pixels
C3_Witness ==
    /\ ret.op = "createBuffer" /\ ~ret.threw
    /\ ret.width = 2 /\ ret.height = 2 /\ ret.fill = Some(Ink)
    /\ \A p \in Positions(buffer.rows) : ValueAt(heap, buffer.rows, p) = WHITE

---------------------------------------------------------------------------
(* Claims about drawLine *)

\* the pixel of the buffer at coordinates pt, for pt inside the buffer
PixelAt(rows, pt) == rows[pt[2] + 1][pt[1] + 1]

\* max(|x2 - x1|, |y2 - y1|) + 1
StepCount == Max(Abs(line.x2 - line.x1), Abs(line.y2 - line.y1)) + 1

\* the dominant axis of the line: 2 (y) when |dy| > |dx|, else 1 (x)
Dominant == IF Abs(line.y2 - line.y1) > Abs(line.x2 - line.x1) THEN 2 ELSE 1

\* C8: drawLine stops after exactly max(|x2-x1|, |y2-y1|) + 1 steps; step 0 is
\* at (x1, y1), the last step is at (x2, y2), consecutive steps move by exactly
\* 1 along the dominant axis and by at most 1 along the other; with no style,
\* exactly the in-bounds pixels of that path hold the colour and every other
\* pixel is as it was.
C8_LineSteps ==
    /\ line.pc = "loop" => Len(line.path) < StepCount /\ line.l.step = Len(line.path)
    /\ Len(line.path) >= 1 => line.path[1] = <<line.x1, line.y1>>
    /\ \A i \in 1 .. Len(line.path) - 1 :
          /\ Abs(line.path[i + 1][Dominant] - line.path[i][Dominant]) = 1
          /\ Abs(line.path[i + 1][3 - Dominant] - line.path[i][3 - Dominant]) <= 1
    /\ line.pc \in {"done", "returned"} =>
          /\ Len(line.path) = StepCount
          /\ line.path[Len(line.path)] = <<line.x2, line.y2>>
          /\ buffer.rows = drawLine(LineBuffer, line.x1, line.y1, line.x2, line.y2,
                                    Ink, line.style).rows
          /\ line.style = NoStyle =>
                \A y \in 0 .. MaxLine - 1, x \in 0 .. MaxLine - 1 :
                    PixelAt(buffer.rows, <<x, y>>) =
                        IF \E i \in 1 .. Len(line.path) : line.path[i] = <<x, y>>
                        THEN Ink
                        ELSE PixelAt(LineBuffer.rows, <<x, y>>)

\* the unstyled line from (0, 1) to (3, 3) has returned: four steps, four pixels
C8_Witness ==
    /\ line.pc = "returned" /\ line.style = NoStyle
    /\ <<line.x1, line.y1, line.x2, line.y2>> = <<0, 1, 3, 3>>
    /\ Len(line.path) = 4
    /\ Cardinality({p \in Positions(buffer.rows) : buffer.rows[p[1]][p[2]] = Ink}) = 4

\* the steps the dash pattern of the line lets through
DashOn(s) ==
    LET p == line.style.pattern[1] IN p[(s % Len(p)) + 1] = 1

\* the pixels a step standing at pt writes: pt itself, or the `thickness`
\* pixels across the line
StepPixels(pt) ==
    LET t == OrElse(line.style.thickness, 1)
    IN IF t <= 1 THEN {pt}
       ELSE IF Dominant = 2
            THEN {<<pt[1] - (t \div 2) + n, pt[2]>> : n \in 0 .. t - 1}
            ELSE {<<pt[1], pt[2] - (t \div 2) + n>> : n \in 0 .. t - 1}

HasDashes == line.style.pattern # None /\ Len(line.style.pattern[1]) > 0

\* C9: with a non-empty dash pattern p, the iteration of step s (counted from
\* 0 at the start point) writes its pixel when p[s mod length(p)] = 1 and
\* writes nothing otherwise, and when the line is finished the pixel of step s
\* holds the colour if and only if p[s mod length(p)] = 1.
C9_DashPattern ==
    [][/\ (line.pc = "loop" /\ HasDashes) =>
            IF DashOn(Len(line.path))
            THEN InBounds(buffer.rows, line.l.x, line.l.y)
                    => PixelAt(buffer'.rows, <<line.l.x, line.l.y>>) = Ink
            ELSE buffer' = buffer
       /\ (line'.pc = "done" /\ HasDashes) =>
            \A i \in 1 .. Len(line'.path) :
                InBounds(buffer'.rows, line'.path[i][1], line'.path[i][2]) =>
                    IF DashOn(i - 1)
                    THEN PixelAt(buffer'.rows, line'.path[i]) = Ink
                    ELSE PixelAt(buffer'.rows, line'.path[i])
                            = PixelAt(LineBuffer.rows, line'.path[i])
      ]_vars

\* pattern [1,0,0] along the top row from x = 0 to x = 3: steps 0 and 3 only
C9_Witness ==
    /\ line.pc = "done"
    /\ line.style = [pattern |-> Some(<<1, 0, 0>>), thickness |-> None]
    /\ <<line.x1, line.y1, line.x2, line.y2>> = <<0, 0, 3, 0>>
    /\ {p \in Positions(buffer.rows) : buffer.rows[p[1]][p[2]] = Ink} = {<<1, 1>>, <<1, 4>>}

\* C10: with thickness t > 1, a drawn step at (x, y) writes exactly the t
\* pixels across the line: (x - floor(t/2) + k, y) for k in 0..t-1 when
\* |dy| > |dx| of the endpoints, else (x, y - floor(t/2) + k); the in-bounds
\* ones get the colour and every other pixel keeps its value.
C10_Thickness ==
    [][(/\ line.pc = "loop"
        /\ OrElse(line.style.thickness, 1) > 1
        /\ line.style.pattern = None \/ (HasDashes /\ DashOn(Len(line.path)))) =>
            /\ Cardinality(StepPixels(<<line.l.x, line.l.y>>)) = line.style.thickness[1]
            /\ \A y \in 0 .. MaxLine - 1, x \in 0 .. MaxLine - 1 :
                  PixelAt(buffer'.rows, <<x, y>>) =
                      IF <<x, y>> \in StepPixels(<<line.l.x, line.l.y>>)
                      THEN Ink
                      ELSE PixelAt(buffer.rows, <<x, y>>)
      ]_vars

\* thickness 2 along row 1 from x = 0 to x = 3: rows 0 and 1 are written, no other
C10_Witness ==
    /\ line.pc = "done"
    /\ line.style = [pattern |-> None, thickness |-> Some(2)]
    /\ <<line.x1, line.y1, line.x2, line.y2>> = <<0, 1, 3, 1>>
    /\ {p \in Positions(buffer.rows) : buffer.rows[p[1]][p[2]] = Ink}
          = {p \in Positions(buffer.rows) : p[1] \in {1, 2}}

---------------------------------------------------------------------------
(* Claims about the renderer's options and its output *)

\* C5: the stored options start as {half, truecolor, 128} overlaid with the
\* constructor argument and are exactly what the constructor and the setters
\* wrote, whatever renders with overrides and changes to returned option
\* objects happened in between: getOptions returns those values in an object
\* of its own, and a render without overrides uses them.
C5_StoredOptions ==
    /\ renderer.objs[renderer.this] = written
    /\ renderer.handed # renderer.this
    /\ ret.op = "new" =>
          /\ written.symbolSet = IF ret.options.symbolSet = None THEN "half"
                                 ELSE ret.options.symbolSet[1]
          /\ written.colorMode = IF ret.options.colorMode = None THEN "truecolor"
                                 ELSE ret.options.colorMode[1]
          /\ written.threshold = IF ret.options.threshold = None THEN 128
                                 ELSE ret.options.threshold[1]
    /\ ret.op = "getOptions" => ret.val = written
    /\ (ret.op = "render" /\ ret.options = NoOptions) =>
          ret.out = gridToString(mapPixelsToCells(Pixels(heap, buffer.rows),
                                                  written.symbolSet, written.threshold),
                                 written)

\* the caller changed the object getOptions gave it, a render with overrides
\* ran, and the stored options are still the ones setOptions wrote
C5_Witness ==
    /\ ret.op = "render" /\ ret.options.colorMode = Some(NONE)
    /\ renderer.handed # 0
    /\ renderer.objs[renderer.handed] # written
    /\ written = [symbolSet |-> ASCII, colorMode |-> TRUECOLOR, threshold |-> 50]

\* the options a recorded render ran with
RenderOpts == Written(renderer.objs[renderer.this], ret.options)

\* the grid a recorded render serialized
RenderGrid ==
    mapPixelsToCells(Pixels(heap, buffer.rows), RenderOpts.symbolSet, RenderOpts.threshold)

RECURSIVE ExpectedRow(_, _)
\* cells 1 .. i of a row in truecolor mode: an escape before cell i exactly
\* when i = 1 or the colour differs from cell i - 1's
ExpectedRow(row, i) ==
    IF i = 0 THEN <<>>
    ELSE ExpectedRow(row, i - 1)
         \o (IF i = 1 \/ ~colorsEqual(row[i].fg, row[i - 1].fg)
             THEN << <<"fg", row[i].fg.r, row[i].fg.g, row[i].fg.b>> >> ELSE <<>>)
         \o (IF i = 1 \/ ~colorsEqual(row[i].bg, row[i - 1].bg)
             THEN << <<"bg", row[i].bg.r, row[i].bg.g, row[i].bg.b>> >> ELSE <<>>)
         \o << <<"ch", row[i].char>> >>

RECURSIVE ExpectedRows(_, _)
\* rows 1 .. n, each closed by the reset sequence, with "\n" between rows
ExpectedRows(grid, n) ==
    IF n = 0 THEN <<>>
    ELSE (IF n = 1 THEN <<>> ELSE ExpectedRows(grid, n - 1) \o << <<"nl">> >>)
         \o ExpectedRow(grid[n], Len(grid[n])) \o << <<"reset">> >>

\* C6: in truecolor mode each row of the output has a foreground escape before
\* cell i exactly when i is the row's first cell or its foreground is not
\* colorsEqual to cell i-1's, the same for the background escape, and ends with
\* the reset sequence; the first cell of every row has both escapes.
C6_TruecolorEscapes ==
    (ret.op = "render" /\ RenderOpts.colorMode = TRUECOLOR) =>
        ret.out = ExpectedRows(RenderGrid, Len(RenderGrid))

\* a row of three cells: the second repeats the first cell's colours, the third
\* differs from the second in alpha only
C6_Witness ==
    /\ ret.op = "render" /\ RenderOpts.colorMode = TRUECOLOR
    /\ Len(RenderGrid) = 1 /\ Len(RenderGrid[1]) = 3
    /\ colorsEqual(RenderGrid[1][1].fg, RenderGrid[1][2].fg)
    /\ RenderGrid[1][2].fg.a # RenderGrid[1][3].fg.a
    /\ fgTruecolor(RenderGrid[1][2].fg) = fgTruecolor(RenderGrid[1][3].fg)

IsText(token) == token[1] \in {"ch", "nl"}

\* C7: a render in colour mode `none` holds no escape sequence and equals the
\* truecolor render of the same buffer, symbol set and threshold with the
\* escape sequences taken out: the glyphs of each grid row in order, one "\n"
\* between rows and none at the end.
C7_NoneIsStripped ==
    (ret.op = "render" /\ RenderOpts.colorMode = NONE) =>
        LET colored == gridToString(RenderGrid, [RenderOpts EXCEPT !.colorMode = TRUECOLOR])
            cols == Len(RenderGrid[1])
        IN /\ \A i \in 1 .. Len(ret.out) : IsText(ret.out[i])
           /\ ret.out = SelectSeq(colored, IsText)
           /\ Len(ret.out) = Len(RenderGrid) * (cols + 1) - 1
           /\ \A i \in 1 .. Len(ret.out) :
                 ret.out[i] = IF i % (cols + 1) = 0 THEN <<"nl">>
                              ELSE <<"ch", RenderGrid[((i - 1) \div (cols + 1)) + 1]
                                                     [i % (cols + 1)].char>>

\* a render without colours of two rows of cells
C7_Witness ==
    /\ ret.op = "render" /\ RenderOpts.colorMode = NONE
    /\ Len(RenderGrid) = 2
    /\ ret.out = << <<"ch", RenderGrid[1][1].char>>, <<"nl">>, <<"ch", RenderGrid[2][1].char>> >>
    /\ RenderGrid[1][1].char # RenderGrid[2][1].char

---------------------------------------------------------------------------
(* Claims about dash gaps *)

\* the iteration of step s (from 0) drew nothing: the pattern entry is not 1
Skipped(s) ==
    /\ line.style.pattern # None
    /\ LET p == line.style.pattern[1]
       IN Len(p) = 0 \/ p[(s % Len(p)) + 1] # 1

\* C11: whatever the slope, dash pattern and thickness, the column (line not
\* steep) or row (steep line) of every step whose dash flag is not 1 is left
\* completely unchanged by the whole line.
C11_GapsKept ==
    line.pc \in {"done", "returned"} =>
        \A i \in 1 .. Len(line.path) :
            Skipped(i - 1) =>
                \A y \in 0 .. MaxLine - 1, x \in 0 .. MaxLine - 1 :
                    (<<x, y>>[Dominant] = line.path[i][Dominant]) =>
                        PixelAt(buffer.rows, <<x, y>>) = PixelAt(LineBuffer.rows, <<x, y>>)

\* pattern [1,0,0], thickness 3, from (0,1) to (3,2): columns 0 and 3 hold
\* three written pixels each, columns 1 and 2 none
C11_Witness ==
    /\ line.pc = "done"
    /\ line.style = [pattern |-> Some(<<1, 0, 0>>), thickness |-> Some(3)]
    /\ <<line.x1, line.y1, line.x2, line.y2>> = <<0, 1, 3, 2>>
    /\ \A x \in 0 .. 3 :
          Cardinality({y \in 0 .. MaxLine - 1 : PixelAt(buffer.rows, <<x, y>>) = Ink})
              = IF x \in {0, 3} THEN 3 ELSE 0

---------------------------------------------------------------------------
(* Claims about drawRect and drawCircle *)

\* the pixels drawRect(x, y, w, h, color, fill) is to change
RectSet ==
    IF line.width <= 0 \/ line.height <= 0 THEN {}
    ELSE {p \in (line.x .. line.x + line.width - 1) \X (line.y .. line.y + line.height - 1) :
            \/ line.fill
            \/ p[1] = line.x \/ p[1] = line.x + line.width - 1
            \/ p[2] = line.y \/ p[2] = line.y + line.height - 1}

\* C12: drawRect leaves the buffer unchanged when w <= 0 or h <= 0; without
\* fill it changes exactly the in-bounds pixels of the four edges of the
\* rectangle, with fill exactly the in-bounds pixels of the rectangle; no
\* other pixel is changed.
C12_RectPixels ==
    line.pc = "returned" =>
        /\ Len(buffer.rows) = MaxLine
        /\ \A y \in 0 .. MaxLine - 1 :
              /\ Len(buffer.rows[y + 1]) = MaxLine
              /\ \A x \in 0 .. MaxLine - 1 :
                    PixelAt(buffer.rows, <<x, y>>) =
                        IF <<x, y>> \in RectSet THEN Ink
                        ELSE PixelAt(LineBuffer.rows, <<x, y>>)

\* the outline of the 3 x 3 rectangle at (0, 0): eight pixels, the middle one kept
C12_Witness ==
    /\ line.pc = "returned" /\ ~line.fill
    /\ <<line.x, line.y, line.width, line.height>> = <<0, 0, 3, 3>>
    /\ PixelAt(buffer.rows, <<1, 1>>) # Ink
    /\ Cardinality({p \in Positions(buffer.rows) : buffer.rows[p[1]][p[2]] = Ink}) = 8

\* the offsets from (cx, cy) of the pixels of `rows` that hold the colour
InkOffsets(rows, cx, cy) ==
    {<<p[2] - 1 - cx, p[1] - 1 - cy>> : p \in {q \in Positions(rows) : rows[q[1]][q[2]] = Ink}}

\* the offsets a circle of radius r writes, read off a circle drawn around the
\* middle of a buffer that holds all of it
CircleOffsets(r, fill) ==
    InkOffsets(drawCircle(CircleBuffer, MaxRadius, MaxRadius, r, Ink, fill).rows,
               MaxRadius, MaxRadius)

\* the in-bounds pixels at the offsets `offs` from the centre of the call, and
\* no other, hold the colour
WrittenAre(offs) ==
    \A p \in Positions(buffer.rows) :
        buffer.rows[p[1]][p[2]] =
            IF <<p[2] - 1 - line.cx, p[1] - 1 - line.cy>> \in offs THEN Ink
            ELSE CircleBuffer.rows[p[1]][p[2]]

\* C13: drawCircle without fill stops after at most radius + 1 iterations; a
\* negative radius leaves the buffer unchanged, radius 0 writes the centre
\* only; for r >= 0 the written offsets are closed under the eight mirror
\* symmetries, contain (+-r, 0) and (0, +-r) and lie in |dx| <= r, |dy| <= r.
C13_CircleOutline ==
    /\ line.n <= Max(line.radius, 0) + 1
    /\ (line.pc \in {"done", "returned"} /\ ~line.fill) =>
          IF line.radius < 0 THEN buffer = CircleBuffer
          ELSE LET r == line.radius
                   offs == CircleOffsets(r, FALSE)
               IN /\ WrittenAre(offs)
                  /\ r = 0 => offs = {<<0, 0>>}
                  /\ \A d \in offs :
                        /\ {<<d[1], 0 - d[2]>>, <<0 - d[1], d[2]>>, <<0 - d[1], 0 - d[2]>>,
                            <<d[2], d[1]>>, <<d[2], 0 - d[1]>>, <<0 - d[2], d[1]>>,
                            <<0 - d[2], 0 - d[1]>>} \subseteq offs
                        /\ Abs(d[1]) <= r /\ Abs(d[2]) <= r
                  /\ {<<r, 0>>, <<0 - r, 0>>, <<0, r>>, <<0, 0 - r>>} \subseteq offs
                  /\ buffer.rows = drawCircle(CircleBuffer, line.cx, line.cy, r, Ink, FALSE).rows

\* the outline of radius 2 around the middle of the buffer: eight pixels
C13_Witness ==
    /\ line.pc = "returned" /\ ~line.fill /\ line.radius = 2
    /\ line.cx = MaxRadius /\ line.cy = MaxRadius
    /\ InkOffsets(buffer.rows, line.cx, line.cy)
          = {<<2, 0>>, <<-2, 0>>, <<0, 2>>, <<0, -2>>, <<1, 1>>, <<1, -1>>, <<-1, 1>>, <<-1, -1>>}

\* C14: for r >= 0 drawCircle with fill writes, in every row dy of -r .. r,
\* exactly the span -m(dy) .. m(dy), where m(dy) is the largest |dx| of an
\* outline pixel of that row, and writes in no other row.
C14_CircleFill ==
    (line.pc \in {"done", "returned"} /\ line.fill /\ line.radius >= 0) =>
        LET r == line.radius
            outline == CircleOffsets(r, FALSE)
            disk == CircleOffsets(r, TRUE)
        IN /\ WrittenAre(disk)
           /\ \A d \in disk : Abs(d[2]) <= r
           /\ \A dy \in 0 - r .. r :
                 /\ \E d \in outline : d[2] = dy
                 /\ LET m == CHOOSE a \in 0 .. r :
                                /\ \E d \in outline : d[2] = dy /\ Abs(d[1]) = a
                                /\ \A d \in outline : d[2] = dy => Abs(d[1]) <= a
                    IN {d[1] : d \in {e \in disk : e[2] = dy}} = 0 - m .. m
           /\ buffer.rows = drawCircle(CircleBuffer, line.cx, line.cy, r, Ink, TRUE).rows

\* the disk of radius 2 around the middle of the buffer: rows of 1, 3, 5, 3, 1 pixels
C14_Witness ==
    /\ line.pc = "returned" /\ line.fill /\ line.radius = 2
    /\ line.cx = MaxRadius /\ line.cy = MaxRadius
    /\ \A dy \in -2 .. 2 :
          Cardinality({d \in InkOffsets(buffer.rows, line.cx, line.cy) : d[2] = dy})
              = 5 - 2 * Abs(dy)
    /\ Cardinality(InkOffsets(buffer.rows, line.cx, line.cy)) = 13

---------------------------------------------------------------------------
(* Claims about the mapping of pixels to cells *)

\* the sub-grid of a symbol set: <<width, height>>
SubGrid ==
    [s \in SymbolSets |->
        CASE s = ASCII -> <<1, 1>>
          [] s = HALF -> <<1, 2>>
          [] s = QUADRANT -> <<2, 2>>
          [] s = SEXTANT -> <<2, 3>>
          [] s = BRAILLE -> <<2, 4>>]

\* the colour sampled at pixel (x, y): opaque black outside the buffer
Sampled(x, y) ==
    IF InBounds(buffer.rows, x, y) THEN heap[buffer.rows[y + 1][x + 1]]
    ELSE [r |-> 0, g |-> 0, b |-> 0, a |-> Some(255)]

\* alpha absent or >= 128, and luma >= threshold
IsOn(color) ==
    /\ color.a = None \/ color.a[1] >= 128
    /\ getBrightness(color) >= line.threshold

\* bit (row * width + col) of the cell in column cx, row cy of the grid (from 1)
SubBit(cx, cy, col, row) ==
    LET w == SubGrid[line.symbolSet][1]
        h == SubGrid[line.symbolSet][2]
    IN IF col < w /\ row < h /\ IsOn(Sampled((cx - 1) * w + col, (cy - 1) * h + row))
       THEN 2 ^ (row * w + col)
       ELSE 0

\* the pattern of that cell: the sum of its bits over a 2 x 3 frame
SubPattern(cx, cy) ==
    SubBit(cx, cy, 0, 0) + SubBit(cx, cy, 1, 0) + SubBit(cx, cy, 0, 1)
    + SubBit(cx, cy, 1, 1) + SubBit(cx, cy, 0, 2) + SubBit(cx, cy, 1, 2)

\* C15: with the half-block, quadrant and sextant sets, the glyph of every
\* cell is that of the one table entry whose pattern has bit
\* (row * subgridWidth + col) set exactly for the sub-pixels (col, row) of
\* the cell's region that are on.
C15_GlyphOfPattern ==
    (line.pc = "returned" /\ line.symbolSet \in {HALF, QUADRANT, SEXTANT}) =>
        LET grid == ret.val
            table == getSymbolSet(line.symbolSet)
        IN \A cy \in 1 .. Len(grid) : \A cx \in 1 .. Len(grid[cy]) :
              LET hits == {i \in 1 .. Len(table) : table[i].pattern = SubPattern(cx, cy)}
              IN /\ Cardinality(hits) = 1
                 /\ \A i \in hits : grid[cy][cx].char = table[i].char

\* a 2 x 2 buffer with only (0, 0) white at threshold 128: the quadrant glyph
\* of pattern 1, the upper-left quadrant U+2598
C15_Witness ==
    /\ line.pc = "returned" /\ line.symbolSet = QUADRANT /\ line.threshold = 128
    /\ Pixels(heap, buffer.rows) = << <<WHITE, BLACK>>, <<BLACK, BLACK>> >>
    /\ SubPattern(1, 1) = 1
    /\ ret.val[1][1].char = 9624
    /\ Len(ret.val) = 1 /\ Len(ret.val[1]) = 1

\* F(0) + ... + F(7): a sum over the sub-pixels of a cell of at most 2 x 4
Sum8(F(_)) == F(0) + F(1) + F(2) + F(3) + F(4) + F(5) + F(6) + F(7)

\* the colour sampled at sub-pixel i (row by row) of the cell at column cx,
\* row cy of the grid (from 1)
SubSample(cx, cy, i) ==
    LET w == SubGrid[line.symbolSet][1]
        h == SubGrid[line.symbolSet][2]
    IN Sampled((cx - 1) * w + (i % w), (cy - 1) * h + (i \div w))

\* the sub-pixels of that cell that count for the foreground (on = TRUE) or
\* the background (on = FALSE)
SubCounted(cx, cy, i, on) ==
    /\ i < SubGrid[line.symbolSet][1] * SubGrid[line.symbolSet][2]
    /\ IsOn(SubSample(cx, cy, i)) = on

\* the rounded average, channel by channel, of the counted sub-pixels;
\* opaque black when there is none
SubAverage(cx, cy, on) ==
    LET N(i) == IF SubCounted(cx, cy, i, on) THEN 1 ELSE 0
        R(i) == IF SubCounted(cx, cy, i, on) THEN SubSample(cx, cy, i).r ELSE 0
        G(i) == IF SubCounted(cx, cy, i, on) THEN SubSample(cx, cy, i).g ELSE 0
        B(i) == IF SubCounted(cx, cy, i, on) THEN SubSample(cx, cy, i).b ELSE 0
        A(i) == IF SubCounted(cx, cy, i, on) THEN OrElse(SubSample(cx, cy, i).a, 255) ELSE 0
        n == Sum8(N)
    IN IF n = 0 THEN [r |-> 0, g |-> 0, b |-> 0, a |-> Some(255)]
       ELSE [r |-> RoundDiv(Sum8(R), n), g |-> RoundDiv(Sum8(G), n),
             b |-> RoundDiv(Sum8(B), n), a |-> Some(RoundDiv(Sum8(A), n))]

\* C16: mapPixelsToCells returns the empty grid for a buffer with no row or
\* with an empty first row; otherwise ceil(height / subgridHeight) rows of
\* ceil(width / subgridWidth) cells, where the sub-pixels outside the buffer
\* count as opaque black: never in the foreground (thresholds >= 1), always in
\* the background average.
C16_GridShape ==
    line.pc = "returned" =>
        LET grid == ret.val
            w == SubGrid[line.symbolSet][1]
            h == SubGrid[line.symbolSet][2]
            width == Width(buffer.rows)
            height == Len(buffer.rows)
        IN IF height = 0 \/ width = 0 THEN grid = <<>>
           ELSE /\ Len(grid) * h >= height /\ (Len(grid) - 1) * h < height
                /\ \A cy \in 1 .. Len(grid) :
                      /\ Len(grid[cy]) * w >= width /\ (Len(grid[cy]) - 1) * w < width
                      /\ \A cx \in 1 .. Len(grid[cy]) :
                            /\ grid[cy][cx].fg = SubAverage(cx, cy, TRUE)
                            /\ grid[cy][cx].bg = SubAverage(cx, cy, FALSE)

\* one red pixel mapped with half blocks: one cell, whose background is the
\* average of the red pixel and the black sampled below it
C16_Witness ==
    /\ line.pc = "returned" /\ line.symbolSet = HALF /\ line.threshold = 128
    /\ Pixels(heap, buffer.rows) = << <<RED>> >>
    /\ Len(ret.val) = 1 /\ Len(ret.val[1]) = 1
    /\ ret.val[1][1].bg = [r |-> 100, g |-> 0, b |-> 0, a |-> Some(255)]
    /\ ret.val[1][1].char = 32

---------------------------------------------------------------------------
(* Claims about the symbol tables *)

\* C17: for every pattern p of 0 .. 255, findBestSymbol on the braille table
\* returns the entry of pattern p whose glyph is the code point 0x2800 + p,
\* the glyph getBrailleChar(p) gives.
C17_BrailleShortcut ==
    /\ ret.op = "findBestSymbol" =>
          /\ ret.val.pattern = line.pattern
          /\ ret.val.char = 10240 + line.pattern
    /\ line.pc = "returned" => line.char = ret.val.char

\* pattern 255: both ways give U+28FF
C17_Witness ==
    /\ line.pc = "returned" /\ line.pattern = 255
    /\ ret.val.char = 10495 /\ line.char = 10495

\* the table has one entry per value of 0 .. 2^(w*h) - 1, the entries have
\* glyphs of their own and all have width w and height h
Exhaustive(table, w, h) ==
    /\ Len(table) = 2 ^ (w * h)
    /\ \A p \in 0 .. 2 ^ (w * h) - 1 :
          Cardinality({i \in 1 .. Len(table) : table[i].pattern = p}) = 1
    /\ \A i \in 1 .. Len(table), j \in 1 .. Len(table) :
          table[i].pattern # table[j].pattern => table[i].char # table[j].char
    /\ \A i \in 1 .. Len(table) : table[i].width = w /\ table[i].height = h

\* C18: the half-block, quadrant and sextant tables have 4, 16 and 64
\* entries, every value of 0 .. 2^(w*h) - 1 is the pattern of exactly one
\* entry, distinct patterns have distinct glyphs and all entries of a table
\* have its width and height; so the search for a pattern of the sub-grid
\* always ends on the entry of that very pattern.
C18_TablesExhaustive ==
    /\ Exhaustive(HALF_BLOCK_SYMBOLS, 1, 2) /\ Len(HALF_BLOCK_SYMBOLS) = 4
    /\ Exhaustive(QUADRANT_SYMBOLS, 2, 2) /\ Len(QUADRANT_SYMBOLS) = 16
    /\ Exhaustive(SEXTANT_SYMBOLS, 2, 3) /\ Len(SEXTANT_SYMBOLS) = 64
    /\ (line.pc = "returned"
        /\ line.pattern < 2 ^ (SubGrid[line.symbolSet][1] * SubGrid[line.symbolSet][2])) =>
            ret.val.pattern = line.pattern

\* the last pattern of the sextant table was searched and found: the full block
C18_Witness ==
    /\ line.pc = "returned" /\ line.symbolSet = SEXTANT /\ line.pattern = 63
    /\ ret.val = [char |-> 9608, pattern |-> 63, width |-> 2, height |-> 3]

---------------------------------------------------------------------------
(* Claims about the colour helpers *)

ColorOps == {"rgb", "hex", "averageColors", "blendColors", "interpolateColor",
             "invertColor"}

IsByte(v) == v \in 0 .. 255

\* C19: every Color that rgb, hex, averageColors, blendColors, interpolateColor
\* or invertColor (of an in-range colour) returns has r, g and b in 0 .. 255,
\* and its alpha too when it has one, whatever the arguments were
C19_ChannelsAreBytes ==
    ret.op \in ColorOps =>
        /\ IsByte(ret.val.r)
        /\ IsByte(ret.val.g)
        /\ IsByte(ret.val.b)
        /\ ret.val.a # None => IsByte(ret.val.a[1])

\* hex has returned a Color read from a string of six characters
C19_Witness ==
    /\ ret.op = "hex"
    /\ Len(replaceHash(line.args[1])) = 6
    /\ ret.val # BLACK

\* the characters after an optional leading "#"
HexBody(s) == IF s # <<>> /\ s[1] = "#" THEN Tail(s) ELSE s

\* an optional "#" followed by exactly 3 or exactly 6 hexadecimal digits
WellFormed(s) ==
    /\ Len(HexBody(s)) \in {3, 6}
    /\ \A i \in DOMAIN HexBody(s) : DigitValue(HexBody(s)[i]) >= 0

\* "#RRGGBB" of the three digits R, G, B
Doubled(body) == <<"#", body[1], body[1], body[2], body[2], body[3], body[3]>>

\* C20: hex(s) never fails; it returns opaque black (0, 0, 0, 255) for every
\* string that is not an optional "#" followed by exactly 3 or 6 hexadecimal
\* digits, and for a well-formed "#RGB" it returns what "#RRGGBB" with each
\* digit doubled does
C20_HexStrict ==
    ret.op = "hex" =>
        /\ ret.threw = FALSE
        /\ ~WellFormed(line.args[1]) => ret.val = BLACK
        /\ (WellFormed(line.args[1]) /\ Len(HexBody(line.args[1])) = 3) =>
               ret.val = hex(Doubled(HexBody(line.args[1])))

\* hex has returned from a string of the right length that holds a character
\* which is no hexadecimal digit
C20_Witness ==
    /\ ret.op = "hex"
    /\ Len(HexBody(line.args[1])) = 6
    /\ ~WellFormed(line.args[1])

\* blendColors has returned from two in-range colours
Blended ==
    /\ ret.op = "blendColors"
    /\ line.args[1] \in InRangeColors
    /\ line.args[2] \in InRangeColors

SameRGB(c1, c2) == c1.r = c2.r /\ c1.g = c2.g /\ c1.b = c2.b

\* the result is bg with its missing alpha read as 255
IsBackground(val, bg) == SameRGB(val, bg) /\ val.a = Some(OrElse(bg.a, 255))

\* C21 as stated: for in-range fg and bg, an opaque fg (alpha 255 or absent)
\* gives the r, g, b of fg, and a fully transparent fg (alpha 0) gives bg
\* unchanged, for every bg including the fully transparent ones
C21_BlendIdentities ==
    Blended =>
        /\ OrElse(line.args[1].a, 255) = 255 => SameRGB(ret.val, line.args[1])
        /\ line.args[1].a = Some(0) => IsBackground(ret.val, line.args[2])

\* C21 as the code has it: an opaque fg gives the r, g, b of fg; a fully
\* transparent fg gives bg unchanged when the alpha of bg is not 0, and
\* transparent black (0, 0, 0, 0) when the alpha of bg is 0 too
C21_BlendIdentitiesGuarded ==
    Blended =>
        /\ OrElse(line.args[1].a, 255) = 255 => SameRGB(ret.val, line.args[1])
        /\ (line.args[1].a = Some(0) /\ line.args[2].a # Some(0)) =>
               IsBackground(ret.val, line.args[2])
        /\ (line.args[1].a = Some(0) /\ line.args[2].a = Some(0)) =>
               ret.val = TRANSPARENT

\* a fully transparent fg has been blended over a fully transparent bg that
\* carries a colour
C21_Witness ==
    /\ Blended
    /\ line.args[1].a = Some(0)
    /\ line.args[2] = CLEAR_RED

---------------------------------------------------------------------------
(* Claims about degenerate lines *)

\* drawLine was called with (x1, y1) = (x2, y2) and its loop is over
ZeroLengthDone ==
    /\ line.x1 = line.x2
    /\ line.y1 = line.y2
    /\ line.pc \in {"done", "returned"}

\* step 0 passes the dash pattern
FirstStepDrawn ==
    \/ line.style.pattern = None
    \/ /\ Len(line.style.pattern[1]) > 0
       /\ line.style.pattern[1][1] = 1

\* C22 as stated: a drawLine call whose two endpoints coincide does not fail
\* and leaves every pixel of the buffer unchanged
C22_PointLineNoOp ==
    ZeroLengthDone =>
        /\ ~ret.threw
        /\ buffer.rows = LineBuffer.rows

\* C22 as the code has it: a drawLine call whose two endpoints coincide does
\* not fail and runs exactly one step; when step 0 passes the dash pattern it
\* writes the in-bounds pixels of that step (the point, or its run of
\* `thickness` pixels along y), and every other pixel is unchanged
C22_PointLine ==
    ZeroLengthDone =>
        /\ ~ret.threw
        /\ line.path = <<(<<line.x1, line.y1>>)>>
        /\ line.pc = "returned" => ret.val = BufferRef(buffer)
        /\ \A y \in 0 .. MaxLine - 1, x \in 0 .. MaxLine - 1 :
              PixelAt(buffer.rows, <<x, y>>) =
                  IF FirstStepDrawn /\ <<x, y>> \in StepPixels(<<line.x1, line.y1>>)
                  THEN Ink
                  ELSE PixelAt(LineBuffer.rows, <<x, y>>)

\* the unstyled line from (1, 1) to (1, 1) has returned and its pixel is set
C22_Witness ==
    /\ ZeroLengthDone
    /\ line.pc = "returned" /\ line.style = NoStyle
    /\ <<line.x1, line.y1>> = <<1, 1>>
    /\ PixelAt(buffer.rows, <<1, 1>>) = Ink
    /\ buffer.rows # LineBuffer.rows

---------------------------------------------------------------------------
(* Claims about the economy of the escape sequences *)

\* tokens i and j of the output are escapes of one kind (foreground or
\* background) on one line, with no escape of that kind between them
ConsecutiveEscapes(out, i, j) ==
    /\ i < j
    /\ out[i][1] \in {"fg", "bg"}
    /\ out[j][1] = out[i][1]
    /\ \A k \in i + 1 .. j - 1 : out[k][1] \notin {out[i][1], "nl"}

\* C23: in a truecolor render no foreground escape sets the R;G;B triple of the
\* foreground escape most recently emitted on the same line, and likewise for
\* background escapes, for every grid mapPixelsToCells can produce
C23_MinimalEscapes ==
    (ret.op = "render" /\ RenderOpts.colorMode = TRUECOLOR) =>
        \A i \in 1 .. Len(ret.out), j \in 1 .. Len(ret.out) :
            ConsecutiveEscapes(ret.out, i, j) => ret.out[i] # ret.out[j]

\* a truecolor render of a row of two cells whose foregrounds have one R;G;B
\* triple and two alphas
C23_Witness ==
    /\ ret.op = "render" /\ RenderOpts.colorMode = TRUECOLOR
    /\ Len(RenderGrid) = 1 /\ Len(RenderGrid[1]) = 2
    /\ RenderGrid[1][1].fg.a # RenderGrid[1][2].fg.a
    /\ fgTruecolor(RenderGrid[1][1].fg) = fgTruecolor(RenderGrid[1][2].fg)

---------------------------------------------------------------------------
(* Claims about the choice of a symbol *)

\* bit k of the non-negative integer n
BitOf(n, k) == (n \div (2 ^ k)) % 2

\* the number of bit positions in which a and b differ
Hamming(a, b) == Cardinality({k \in 0 .. 7 : BitOf(a, k) # BitOf(b, k)})

\* the entries of the table that match the query exactly
ExactEntries(symbols, pattern) ==
    {i \in DOMAIN symbols : symbols[i].pattern = pattern}

\* the entries of the table at the smallest Hamming distance from the query
NearestEntries(symbols, pattern) ==
    {i \in DOMAIN symbols :
        \A j \in DOMAIN symbols :
            Hamming(pattern, symbols[i].pattern) <= Hamming(pattern, symbols[j].pattern)}

\* the least element of a non-empty set of indices
First(S) == CHOOSE i \in S : \A j \in S : i <= j

---------------------------------------------------------------------------
(* Claims about the ASCII symbol set *)

\* a render with the ASCII symbol set is recorded
AsciiRendered == ret.op = "render" /\ RenderOpts.symbolSet = ASCII

\* the glyphs and line breaks of the recorded output
RenderText == SelectSeq(ret.out, IsText)

\* C25: with the ASCII (1x1) symbol set every glyph of a render output is the
\* blank ' ' where the pixel is off and '.' where it is on, whatever the
\* brightness of the pixel: no other glyph of the ramp appears, and the output
\* has one glyph per pixel, row by row
C25_AsciiBlankOrDot ==
    AsciiRendered =>
        LET px == Pixels(heap, buffer.rows)
            cols == Len(px[1])
        IN /\ \A i \in 1 .. Len(ret.out) :
                 ret.out[i][1] = "ch" => ret.out[i][2] \in {32, 46}
           /\ Len(RenderGrid) = Len(px)
           /\ \A y \in 1 .. Len(px) : Len(RenderGrid[y]) = cols
           /\ Len(RenderText) = Len(px) * (cols + 1) - 1
           /\ \A i \in 1 .. Len(RenderText) :
                 RenderText[i] =
                     IF i % (cols + 1) = 0 THEN <<"nl">>
                     ELSE <<"ch", IF isPixelOn(px[((i - 1) \div (cols + 1)) + 1][i % (cols + 1)],
                                               RenderOpts.threshold)
                                  THEN 46 ELSE 32>>

\* an ASCII render of a red pixel that is on beside a black pixel that is off
C25_Witness ==
    /\ AsciiRendered
    /\ RenderOpts.threshold = 50
    /\ Pixels(heap, buffer.rows) = << <<RED, BLACK>> >>
    /\ RenderText = << <<"ch", 46>>, <<"ch", 32>> >>

---------------------------------------------------------------------------
(* Claims about the braille region *)

\* the braille bit of sub-pixel (col, row): 0, 1, 2, 6 down the left column
\* and 3, 4, 5, 7 down the right
BrailleBit(col, row) ==
    IF col = 0 THEN <<0, 1, 2, 6>>[row + 1] ELSE <<3, 4, 5, 7>>[row + 1]

\* the bit of sub-pixel (col, row) in the generic pattern
GenericBit(col, row) == row * 2 + col

RegionSubPixels == (0 .. 1) \X (0 .. 3)

\* sub-pixel (col, row) of the region is on; outside the buffer it is black
RegionOn(sp) ==
    LET px == Pixels(heap, buffer.rows)
        x == line.startX + sp[1]
        y == line.startY + sp[2]
        color == IF y < Len(px) /\ x < Len(px[y + 1]) THEN px[y + 1][x + 1] ELSE BLACK
    IN isPixelOn(color, line.threshold)

\* both functions have returned
BothMapped == line.pc = "regions" /\ line.braille # None /\ line.generic # None

---------------------------------------------------------------------------
(* Claims about the range of the patterns *)

\* the pattern mapPixelsToCells computes for the cell in column cx, row cy
CellPattern(cx, cy) ==
    LET w == SubGrid[line.symbolSet][1]
        h == SubGrid[line.symbolSet][2]
        px == Pixels(heap, buffer.rows)
    IN IF line.symbolSet = BRAILLE
       THEN mapBrailleRegion(px, (cx - 1) * w, (cy - 1) * h, line.threshold).pattern
       ELSE mapRegionToPattern(px, (cx - 1) * w, (cy - 1) * h, w, h, line.threshold).pattern

\* C27: for every buffer, threshold and built-in symbol set, the pattern of
\* every cell is at least 0 and below 2^(subgridWidth * subgridHeight), the
\* table holds an entry with exactly that pattern, and the glyph of the cell
\* is that of the first such entry: the closest-match fallback of
\* findBestSymbol is never reached from mapPixelsToCells
C27_PatternInRange ==
    line.pc = "returned" =>
        \A cy \in 1 .. Len(ret.val) : \A cx \in 1 .. Len(ret.val[cy]) :
            LET symbols == getSymbolSet(line.symbolSet)
                pattern == CellPattern(cx, cy)
                bits == SubGrid[line.symbolSet][1] * SubGrid[line.symbolSet][2]
            IN /\ pattern >= 0
               /\ pattern < 2 ^ bits
               /\ ExactEntries(symbols, pattern) # {}
               /\ ret.val[cy][cx].char = symbols[First(ExactEntries(symbols, pattern))].char

\* a sextant cell of a 2 x 3 buffer with every sub-pixel on: pattern 63, the
\* largest of its table
C27_Witness ==
    /\ line.pc = "returned" /\ line.symbolSet = SEXTANT
    /\ Len(ret.val) = 1 /\ Len(ret.val[1]) = 1
    /\ CellPattern(1, 1) = 63
    /\ Len(Pixels(heap, buffer.rows)) = 3

=============================================================================
